---- MODULE Spec2Model ----
(***************************************************************************)
(* A model of the layout pipeline of src/src/graph_drawing.rs:             *)
(*   calculate_vcg -> condense -> rank -> calculate_locs_and_hops          *)
(*     -> miosqp::minimize_edge_crossing (with osqp::ILP::solve inside).   *)
(* Node names are modelled as naturals ordered like the strings they stand *)
(* for; the synthetic node "root" is 0.                                    *)
(***************************************************************************)
EXTENDS Integers, Sequences, FiniteSets, TLC

\* Bounds of the model.
MaxNodes == 3
MaxEdges == 3

\* Bounds of the labelled facts: the edges of a graph and the labels of a pair.
MaxVcgEdges == 2
MaxKinds == 2

\* The steps of the grid on [0, 1] from which a converged relaxation answers.
GridSteps == 2

\* A row is kept at most MaxRepeat times in the csp of an instance, and the
\* queue of ILP::solve branches no further beyond MaxQueue instances.
MaxRepeat == 1
MaxQueue == 1
MaxShrRanks == 2
MaxShrWidth == 3

\* as_csc_matrix is tried on up to MaxCscRows rows of up to MaxCscTerms
\* monomials each, over the variables of the indices 0..MaxCscIndex.
MaxCscRows == 2
MaxCscTerms == 2
MaxCscIndex == 2

\* What the front end may measure, in tenths: a label of 10.4 or 60.4 and a
\* hop of (20.0, 20.0) or (15.3, 15.1); gap names the table it leaves short.
Measurements ==
    {[label |-> 104, hop |-> <<200, 200>>, gap |-> "none"],
     [label |-> 104, hop |-> <<153, 151>>, gap |-> "none"],
     [label |-> 604, hop |-> <<153, 151>>, gap |-> "none"],
     [label |-> 104, hop |-> <<200, 200>>, gap |-> "loc"],
     [label |-> 104, hop |-> <<200, 200>>, gap |-> "hop"]}

\* The values of a relaxation are held in tenths, the unit of eps_abs = 0.1:
\* v stands for the f64 value v / Scale.
Scale == 10

\* K::max() of the i32 edge cost handed to floyd_warshall.
I32Max == 2147483647

\* usize::MAX, cut to the 32-bit integers of the model: it is read only in
\* nhr > num_objects.
UsizeMax == 2147483647

\* f64::INFINITY: above every sum the model forms.
INFINITY == 1000000

root == 0
Names == 1..MaxNodes

VARIABLES
    pc,             \* the stage of the pipeline that runs next
    err,            \* the error or panic that ended the run, "" while there is none
    facts,          \* the input: the names and the adjacent pairs of the paths
    vx_iter,        \* the iteration order of the vx_rank HashMap in this run
    vert,           \* Vcg.vert
    condensed,      \* Cvcg.condensed
    paths_by_rank,  \* the RankedPaths
    placement,      \* the Placement
    ilp,            \* the ILP built by minimize_edge_crossing: vars, csp, obj
    queue,          \* ILP::solve: the work queue of instances
    instance,       \* ILP::solve: the instance popped in this turn
    relaxation,     \* ILPInstance::solve: what solve_relaxation answered in this turn
    inst_status,    \* ILP::solve: what instance.solve answered in this turn
    global_bound,   \* ILP::solve: the best objective seen, INFINITY at first
    global_xs,      \* ILP::solve: None (<< >>) or Some(xs) (<<xs>>)
    status,         \* what ILP::solve returned to minimize_edge_crossing
    crossing_number,\* the first component of minimize_edge_crossing's result
    solved_locs,    \* the second component: VerticalRank -> OHR -> SHR
    perm,           \* minion::minimize_edge_crossing: the x matrices parsed, one a rank
    minion_locs,    \* minion::minimize_edge_crossing: its solved_locs
    layout_problem, \* the LayoutProblem of calculate_sols, with the widths set later
    qp,             \* position_sols: the V, C, Pd and Q handed to the QP solver
    csc             \* as_csc_matrix: the arguments rows and ncols, and the CscMatrix built

vars_layout == <<pc, err, facts, vx_iter, vert, condensed, paths_by_rank, placement>>
vars_ilp    == <<ilp, queue, instance, relaxation, inst_status, global_bound, global_xs,
                 status>>
vars_geometry == <<qp, csc>>
vars_result == <<crossing_number, solved_locs, perm, minion_locs, layout_problem,
                 vars_geometry>>
vars        == <<vars_layout, vars_ilp, vars_result>>

----------------------------------------------------------------------------
\* Generic helpers: maps (HashMap / BTreeMap) are functions, Vec / SortedVec
\* are sequences.

Max(S) == CHOOSE x \in S : \A y \in S : y <= x
Min(S) == CHOOSE x \in S : \A y \in S : x <= y

EmptyMap == << >>

Put(m, k, v) == [x \in (DOMAIN m) \cup {k} |-> IF x = k THEN v ELSE m[x]]

GetOr(m, k, d) == IF k \in DOMAIN m THEN m[k] ELSE d

Range(s) == {s[i] : i \in DOMAIN s}

Perms(S) == {s \in [1..Cardinality(S) -> S] : \A i, j \in DOMAIN s : i # j => s[i] # s[j]}

PairLess(p, q) == p[1] < q[1] \/ (p[1] = q[1] /\ p[2] < q[2])

\* SortedVec::from_unsorted on a set of distinct pairs.
RECURSIVE SortedPairs(_)
SortedPairs(S) ==
    IF S = {} THEN << >>
    ELSE LET m == CHOOSE p \in S : \A q \in S \ {p} : PairLess(p, q)
         IN <<m>> \o SortedPairs(S \ {m})

RECURSIVE SortedNats(_)
SortedNats(S) ==
    IF S = {} THEN << >>
    ELSE LET m == Min(S) IN <<m>> \o SortedNats(S \ {m})

Reverse(s) == [i \in DOMAIN s |-> s[Len(s) + 1 - i]]

----------------------------------------------------------------------------
\* graph::roots: the vertices with no incoming edge.
roots(g) == {v \in g.nodes : ~ \E e \in g.edges : e[2] = v}

\* The edge weights of the VCG, and their order as strings.
Kinds == {"actuates", "senses"}
KindOrd(k) == CASE k = "actuates" -> 1 [] k = "fake" -> 2 [] k = "senses" -> 3

\* The edges added for one adjacent pair of the paths: one per action or
\* percept that is not empty, and one "fake" edge when the pair has none.
pair_edges(e, ks) ==
    IF ks = << >> THEN << <<e[1], e[2], "fake">> >>
    ELSE [i \in DOMAIN ks |-> <<e[1], e[2], ks[i]>>]

RECURSIVE fact_edges(_, _)
fact_edges(pairs, kinds) ==
    IF pairs = << >> THEN << >>
    ELSE pair_edges(Head(pairs), kinds[Head(pairs)]) \o fact_edges(Tail(pairs), kinds)

\* for node in roots.iter() { add_edge(root_ix, node_ix, "fake") }
root_edges(g) ==
    [i \in DOMAIN SortedNats(roots(g)) |-> <<root, SortedNats(roots(g))[i], "fake">>]

\* layout::calculate_vcg: every name of every path is a vertex, every adjacent
\* pair of a path gets its edges; then "root" is added with a "fake" edge to
\* every vertex that had no incoming edge.  edge_list is the edge list of the
\* petgraph multigraph, edges the pairs it joins.
calculate_vcg(f) ==
    LET g  == [nodes |-> f.nodes, edges |-> f.edges]
        el == fact_edges(SortedPairs(f.edges), f.kinds) \o root_edges(g)
    IN [nodes |-> f.nodes \cup {root},
        edges |-> {<<t[1], t[2]>> : t \in Range(el)},
        edge_list |-> el]

\* #[derive(Ord)] on the (V, V, E) triples of a condensed edge's weight.
TripleLess(a, b) ==
    LET x == <<a[1], a[2], KindOrd(a[3])>>
        y == <<b[1], b[2], KindOrd(b[3])>>
    IN \E i \in 1..3 : x[i] < y[i] /\ \A j \in 1..(i - 1) : x[j] = y[j]

\* SortedVec::insert
RECURSIVE sorted_vec_insert(_, _)
sorted_vec_insert(sv, t) ==
    IF sv = << >> THEN <<t>>
    ELSE IF TripleLess(t, Head(sv)) THEN <<t>> \o sv
    ELSE <<Head(sv)>> \o sorted_vec_insert(Tail(sv), t)

\* dsts for one vertex vl: the outgoing edges of vl grouped by target.
RECURSIVE dsts(_, _, _)
dsts(el, vl, acc) ==
    IF el = << >> THEN acc
    ELSE LET t == Head(el)
         IN IF t[1] = vl
            THEN dsts(Tail(el), vl,
                      Put(acc, t[2], sorted_vec_insert(GetOr(acc, t[2], << >>), t)))
            ELSE dsts(Tail(el), vl, acc)

\* A variant of condensed_edges that adds one condensed edge per VCG edge.
RECURSIVE condensed_edges_ungrouped(_, _)
condensed_edges_ungrouped(el, vls) ==
    IF vls = << >> THEN << >>
    ELSE LET vl == Head(vls)
             out == SelectSeq(el, LAMBDA t : t[1] = vl)
         IN [i \in DOMAIN out |-> <<vl, out[i][2], <<out[i]>>>>]
            \o condensed_edges_ungrouped(el, Tail(vls))

\* for (vx, vl) in vert.node_references(): one condensed edge per entry of
\* dsts, its weight the SortedVec collected for that target.
RECURSIVE condensed_edges(_, _)
condensed_edges(el, vls) ==
    IF vls = << >> THEN << >>
    ELSE LET vl == Head(vls)
             d  == dsts(el, vl, EmptyMap)
             ws == SortedNats(DOMAIN d)
         IN [i \in DOMAIN ws |-> <<vl, ws[i], d[ws[i]]>>]
            \o condensed_edges(el, Tail(vls))

\* layout::condense: the same vertices, one edge per ordered pair with at
\* least one edge.
condense(g) ==
    LET el == condensed_edges(g.edge_list, SortedNats(g.nodes))
    IN [nodes |-> g.nodes,
        edges |-> {<<t[1], t[2]>> : t \in Range(el)},
        edge_list |-> el]

----------------------------------------------------------------------------
\* petgraph's floyd_warshall as called by layout::rank with every edge cost
\* -1: the |V|x|V| matrix starts at K::max(), every edge sets its entry to
\* its cost, every diagonal entry is then set to 0, and the k, i, j loops
\* relax in place, skipping additions that overflow.

NodeSeq(g) == SortedNats(g.nodes)

fw_init(g) ==
    [i \in g.nodes, j \in g.nodes |->
        IF i = j THEN 0
        ELSE IF <<i, j>> \in g.edges THEN -1
        ELSE I32Max]

fw_overflows(a, b) == (b > 0 /\ a > I32Max - b) \/ (b < 0 /\ a < (-I32Max - 1) - b)

\* for j in 0..num_of_nodes, dist being updated in place.
RECURSIVE fw_loop_j(_, _, _, _, _)
fw_loop_j(ns, k, i, jx, dist) ==
    IF jx > Len(ns) THEN dist
    ELSE LET j == ns[jx]
             a == dist[i, k]
             b == dist[k, j]
         IN IF ~fw_overflows(a, b) /\ dist[i, j] > a + b
            THEN fw_loop_j(ns, k, i, jx + 1, [dist EXCEPT ![i, j] = a + b])
            ELSE fw_loop_j(ns, k, i, jx + 1, dist)

\* for i in 0..num_of_nodes.  (The test on d only makes TLC evaluate d before
\* it descends: an in-place update never changes the matrix's domain.)
RECURSIVE fw_loop_i(_, _, _, _)
fw_loop_i(ns, k, ix, dist) ==
    IF ix > Len(ns) THEN dist
    ELSE LET d == fw_loop_j(ns, k, ns[ix], 1, dist)
         IN IF DOMAIN d = DOMAIN dist THEN fw_loop_i(ns, k, ix + 1, d) ELSE d

\* for k in 0..num_of_nodes
RECURSIVE fw_relax(_, _, _)
fw_relax(ns, kx, dist) ==
    IF kx > Len(ns) THEN dist
    ELSE LET d == fw_loop_i(ns, ns[kx], 1, dist)
         IN IF DOMAIN d = DOMAIN dist THEN fw_relax(ns, kx + 1, d) ELSE d

floyd_warshall(g) ==
    LET ns   == NodeSeq(g)
        dist == fw_relax(ns, 1, fw_init(g))
    IN IF \E i \in g.nodes : dist[i, i] < 0
       THEN [ok |-> FALSE, dist |-> dist]
       ELSE [ok |-> TRUE, dist |-> dist]

\* A variant of rank that keeps the pairs of weight < 0 only.
rank_weight_below_zero(g, rs, dist) ==
    LET from_roots == {p \in g.nodes \X g.nodes : dist[p[1], p[2]] < 0 /\ p[1] \in rs}
        ranks      == {-dist[p[1], p[2]] : p \in from_roots}
    IN [r \in ranks |-> SortedPairs({p \in from_roots : -dist[p[1], p[2]] = r})]

\* layout::rank on an Ok result of floyd_warshall: keep the pairs that start
\* at a root and have weight <= 0, and group them by -weight, each group a
\* SortedVec of (src, dst).
rank(g, rs, dist) ==
    LET from_roots == {p \in g.nodes \X g.nodes : dist[p[1], p[2]] <= 0 /\ p[1] \in rs}
        ranks      == {-dist[p[1], p[2]] : p \in from_roots}
    IN [r \in ranks |-> SortedPairs({p \in from_roots : -dist[p[1], p[2]] = r})]

----------------------------------------------------------------------------
\* layout::Loc and layout::Hop.
Node(v) == [kind |-> "Node", lvl |-> 0, vl |-> v, wl |-> v]
HopLoc(lvl, vl, wl) == [kind |-> "Hop", lvl |-> lvl, vl |-> vl, wl |-> wl]

Hop(mhr, nhr, vl, wl, lvl) == [mhr |-> mhr, nhr |-> nhr, vl |-> vl, wl |-> wl, lvl |-> lvl]

\* #[derive(Ord)] on Hop: lexicographic on (mhr, nhr, vl, wl, lvl).
HopLess(g, h) ==
    LET a == <<g.mhr, g.nhr, g.vl, g.wl, g.lvl>>
        b == <<h.mhr, h.nhr, h.vl, h.wl, h.lvl>>
    IN \E i \in 1..5 : a[i] < b[i] /\ \A j \in 1..(i - 1) : a[j] = b[j]

\* SortedVec::insert.
SortedInsert(s, h) ==
    LET n == Cardinality({i \in DOMAIN s : ~HopLess(h, s[i])})
    IN SubSeq(s, 1, n) \o <<h>> \o SubSeq(s, n + 1, Len(s))

\* The first loop of calculate_locs_and_hops: ranks are visited in ascending
\* order and a later insert overwrites an earlier one, so each target keeps
\* the largest rank at which it appears and its index in that rank's list.
Targets(pbr) == UNION {{pbr[r][i][2] : i \in DOMAIN pbr[r]} : r \in DOMAIN pbr}

vx_rank(pbr) ==
    [w \in Targets(pbr) |->
        Max({r \in DOMAIN pbr : \E i \in DOMAIN pbr[r] : pbr[r][i][2] = w})]

hx_rank(pbr) ==
    [w \in Targets(pbr) |->
        LET r == vx_rank(pbr)[w]
        IN Max({i \in DOMAIN pbr[r] : pbr[r][i][2] = w}) - 1]

\* A variant of node_mhr that counts the pairs from 1.
node_mhr_from_one(paths, wl) == Min({i \in DOMAIN paths : paths[i][2] = wl})

\* paths.iter().position(|e| e.1 == *wl)
node_mhr(paths, wl) == Min({i \in DOMAIN paths : paths[i][2] = wl}) - 1

\* The second loop: the nodes of vx_rank, in the HashMap's iteration order,
\* are pushed on their rank and entered in both maps.
RECURSIVE node_locs(_, _, _, _)
node_locs(pbr, vxr, order, acc) ==
    IF order = << >> THEN acc
    ELSE LET wl == Head(order)
         IN IF wl \notin DOMAIN vxr THEN node_locs(pbr, vxr, Tail(order), acc)
            ELSE LET rk  == vxr[wl]
                     mhr == node_mhr(pbr[rk], wl)
                     old == GetOr(acc.locs_by_level, rk, << >>)
                 IN node_locs(pbr, vxr, Tail(order),
                        [acc EXCEPT
                            !.locs_by_level = Put(@, rk, Append(old, mhr)),
                            !.loc_to_node   = Put(@, <<rk, mhr>>, Node(wl)),
                            !.node_to_loc   = Put(@, Node(wl), <<rk, mhr>>)])

\* for mid_level in (vvr+1).0..(wvr.0)
mid_levels(vvr, wvr) == (vvr + 1)..(wvr - 1)

\* A variant of hop_levels with an inclusive upper end.
hop_levels_inclusive(vvr, wvr) == vvr..wvr

\* for lvl in vvr.0..wvr.0
hop_levels(vvr, wvr) == vvr..(wvr - 1)

\* A variant of fresh_mhr that restarts every rank's numbering at 0.
fresh_mhr_zero(locs_by_level, mid_level) == 0

\* The OHR of a fresh intermediate loc: the current length of its rank.
fresh_mhr(locs_by_level, mid_level) == Len(GetOr(locs_by_level, mid_level, << >>))

\* mhrs[lvl - vvr]: vhr, then the intermediate OHRs, then whr.
mhrs_at(locs_by_level, vvr, wvr, vhr, whr, lvl) ==
    IF lvl = vvr THEN vhr
    ELSE IF lvl >= wvr THEN whr
    ELSE fresh_mhr(locs_by_level, lvl)

\* A variant of edge_hop whose lower endpoint repeats the upper one.
edge_hop_same_index(locs_by_level, vvr, wvr, vhr, whr, vl, wl, lvl) ==
    Hop(mhrs_at(locs_by_level, vvr, wvr, vhr, whr, lvl),
        mhrs_at(locs_by_level, vvr, wvr, vhr, whr, lvl), vl, wl, lvl)

\* The Hop pushed for level lvl of the edge (vl, wl).
edge_hop(locs_by_level, vvr, wvr, vhr, whr, vl, wl, lvl) ==
    Hop(mhrs_at(locs_by_level, vvr, wvr, vhr, whr, lvl),
        mhrs_at(locs_by_level, vvr, wvr, vhr, whr, lvl + 1), vl, wl, lvl)

\* A variant of insert_hop_loc that forgets the insert.
insert_hop_loc_skipped(loc_to_node, mid_level, mhr, vl, wl) == loc_to_node

\* loc_to_node.insert((mid_level, mhr), Loc::Hop(mid_level, vl, wl))
insert_hop_loc(loc_to_node, mid_level, mhr, vl, wl) ==
    Put(loc_to_node, <<mid_level, mhr>>, HopLoc(mid_level, vl, wl))

RECURSIVE insert_hop_locs(_, _, _, _, _)
insert_hop_locs(loc_to_node, lbl, mids, vl, wl) ==
    IF mids = {} THEN loc_to_node
    ELSE LET r == Min(mids)
         IN insert_hop_locs(insert_hop_loc(loc_to_node, r, fresh_mhr(lbl, r), vl, wl),
                            lbl, mids \ {r}, vl, wl)

\* One iteration of the loop over sorted_condensed_edges.
edge_step(vxr, hxr, e, acc) ==
    LET vl   == e[1]
        wl   == e[2]
        vvr  == vxr[vl]
        wvr  == vxr[wl]
        vhr  == hxr[vl]
        whr  == hxr[wl]
        mids == mid_levels(vvr, wvr)
        lvls == hop_levels(vvr, wvr)
        lbl  == acc.locs_by_level
        oldh == GetOr(acc.hops_by_edge, <<vl, wl>>, EmptyMap)
    IN [locs_by_level |->
            [r \in (DOMAIN lbl) \cup mids |->
                IF r \in mids THEN Append(GetOr(lbl, r, << >>), fresh_mhr(lbl, r))
                ELSE lbl[r]],
        loc_to_node |-> insert_hop_locs(acc.loc_to_node, lbl, mids, vl, wl),
        node_to_loc |->
            [x \in (DOMAIN acc.node_to_loc) \cup {HopLoc(r, vl, wl) : r \in mids} |->
                IF x \in {HopLoc(r, vl, wl) : r \in mids}
                THEN <<x.lvl, fresh_mhr(lbl, x.lvl)>>
                ELSE acc.node_to_loc[x]],
        hops_by_level |->
            [r \in (DOMAIN acc.hops_by_level) \cup lvls |->
                IF r \in lvls
                THEN SortedInsert(GetOr(acc.hops_by_level, r, << >>),
                                  edge_hop(lbl, vvr, wvr, vhr, whr, vl, wl, r))
                ELSE acc.hops_by_level[r]],
        hops_by_edge |->
            IF lvls = {} THEN acc.hops_by_edge
            ELSE Put(acc.hops_by_edge, <<vl, wl>>,
                     [r \in (DOMAIN oldh) \cup lvls |->
                        IF r \in lvls
                        THEN LET h == edge_hop(lbl, vvr, wvr, vhr, whr, vl, wl, r)
                             IN <<h.mhr, h.nhr>>
                        ELSE oldh[r]])]

RECURSIVE edge_steps(_, _, _, _)
edge_steps(vxr, hxr, edges, acc) ==
    IF edges = << >> THEN acc
    ELSE edge_steps(vxr, hxr, Tail(edges), edge_step(vxr, hxr, Head(edges), acc))

\* vx_rank.get(vl).unwrap() panics on an edge with an unranked endpoint.
locs_and_hops_panics(dag, pbr) ==
    \E e \in dag.edges : e[1] \notin Targets(pbr) \/ e[2] \notin Targets(pbr)

calculate_locs_and_hops(dag, pbr, order) ==
    LET vxr  == vx_rank(pbr)
        hxr  == hx_rank(pbr)
        acc0 == node_locs(pbr, vxr, order,
                    [locs_by_level |-> EmptyMap, loc_to_node |-> EmptyMap,
                     node_to_loc |-> EmptyMap, hops_by_level |-> EmptyMap,
                     hops_by_edge |-> EmptyMap])
    IN edge_steps(vxr, hxr, SortedPairs(dag.edges), acc0)

----------------------------------------------------------------------------
\* osqp: variables, constraint rows and the program built by
\* miosqp::minimize_edge_crossing.

\* AnySol::X(l, a, b) and AnySol::C(l, u1, v1, u2, v2).
X(l, a, b) == <<"X", l, a, b, 0, 0>>
C(l, u1, v1, u2, v2) == <<"C", l, u1, v1, u2, v2>>

RECURSIVE Flatten(_)
Flatten(ss) == IF ss = << >> THEN << >> ELSE Head(ss) \o Flatten(Tail(ss))

\* Vars::get, over a sequence of requests: a variable's index is the number
\* of variables registered before its first request.
RECURSIVE register(_, _)
register(gets, vs) ==
    IF gets = << >> THEN vs
    ELSE IF Head(gets) \in Range(vs) THEN register(Tail(gets), vs)
    ELSE register(Tail(gets), Append(vs, Head(gets)))

IndexOf(vs, sol) == (CHOOSE i \in DOMAIN vs : vs[i] = sol) - 1

\* A constraint row (l, a, u) and its monomials <<coeff, sol>>.
Row(l, a, u) == [lo |-> l, terms |-> a, hi |-> u]

\* The loops over a, b, c of one rank: the requests made of vars ...
rank_gets(l, n) ==
    Flatten([t \in 1..(n * n) |->
        LET a == (t - 1) \div n
            b == (t - 1) % n
        IN IF a = b THEN << >>
           ELSE <<X(l, a, b), X(l, b, a)>> \o
                Flatten([c1 \in 1..n |->
                    IF b # c1 - 1 /\ a # c1 - 1
                    THEN <<X(l, c1 - 1, a), X(l, c1 - 1, b)>> ELSE << >>])])

\* A variant of rank_rows that pushes the rows xab + xba = 1 alone.
rank_rows_antisymmetry_only(l, n) ==
    Flatten([t \in 1..(n * n) |->
        LET a == (t - 1) \div n
            b == (t - 1) % n
        IN IF a = b THEN << >>
           ELSE <<Row(1, <<<<1, X(l, a, b)>>, <<1, X(l, b, a)>>>>, 1)>>])

\* ... and the rows pushed: xab + xba = 1, and -1 <= -xcb - xba + xca.
rank_rows(l, n) ==
    Flatten([t \in 1..(n * n) |->
        LET a == (t - 1) \div n
            b == (t - 1) % n
        IN IF a = b THEN << >>
           ELSE <<Row(1, <<<<1, X(l, a, b)>>, <<1, X(l, b, a)>>>>, 1)>> \o
                Flatten([c1 \in 1..n |->
                    IF b # c1 - 1 /\ a # c1 - 1
                    THEN <<Row(-1, <<<<-1, X(l, c1 - 1, b)>>, <<-1, X(l, b, a)>>,
                                     <<1, X(l, c1 - 1, a)>>>>, INFINITY)>>
                    ELSE << >>])])

\* A variant of distinct_endpoints that asks for two hops that differ.
distinct_hops(h1, h2) == h1.mhr # h2.mhr \/ h1.nhr # h2.nhr

\* if u1 != u2 && v1 != v2
distinct_endpoints(h1, h2) == h1.mhr # h2.mhr /\ h1.nhr # h2.nhr

\* The loops over the pairs of hops of rank k: the requests ...
hop_gets(k, hops) ==
    Flatten([t \in 1..(Len(hops) * Len(hops)) |->
        LET h1 == hops[((t - 1) \div Len(hops)) + 1]
            h2 == hops[((t - 1) % Len(hops)) + 1]
        IN IF distinct_endpoints(h1, h2)
           THEN <<C(k, h1.mhr, h1.nhr, h2.mhr, h2.nhr), X(k, h2.mhr, h1.mhr),
                  X(k + 1, h1.nhr, h2.nhr), X(k, h1.mhr, h2.mhr),
                  X(k + 1, h2.nhr, h1.nhr)>>
           ELSE << >>])

\* A variant of cover_rows that pairs each upper order with the same lower
\* order.
cover_rows_same_order(k, u1, v1, u2, v2) ==
    <<Row(1, <<<<1, C(k, u1, v1, u2, v2)>>, <<1, X(k, u2, u1)>>,
               <<1, X(k + 1, v2, v1)>>>>, INFINITY),
      Row(1, <<<<1, C(k, u1, v1, u2, v2)>>, <<1, X(k, u1, u2)>>,
               <<1, X(k + 1, v1, v2)>>>>, INFINITY)>>

\* c + xu21 + xv12 >= 1 and c + xu12 + xv21 >= 1.
cover_rows(k, u1, v1, u2, v2) ==
    <<Row(1, <<<<1, C(k, u1, v1, u2, v2)>>, <<1, X(k, u2, u1)>>,
               <<1, X(k + 1, v1, v2)>>>>, INFINITY),
      Row(1, <<<<1, C(k, u1, v1, u2, v2)>>, <<1, X(k, u1, u2)>>,
               <<1, X(k + 1, v2, v1)>>>>, INFINITY)>>

\* ... and the rows pushed.
hop_rows(k, hops) ==
    Flatten([t \in 1..(Len(hops) * Len(hops)) |->
        LET h1 == hops[((t - 1) \div Len(hops)) + 1]
            h2 == hops[((t - 1) % Len(hops)) + 1]
        IN IF distinct_endpoints(h1, h2)
           THEN cover_rows(k, h1.mhr, h1.nhr, h2.mhr, h2.nhr)
           ELSE << >>])

\* The 0-1 row of every variable.  vars.iter() walks a HashMap; the rows are
\* taken in index order, their order being read by nothing but the index that
\* IntegerInfeasible reports.
bound_rows(vs) == [i \in DOMAIN vs |-> Row(0, <<<<1, vs[i]>>>>, 1)]

\* Q: every crossing variable, with coefficient 1.
objective(vs) ==
    LET cs == {i \in DOMAIN vs : vs[i][1] = "C"}
    IN [j \in 1..Cardinality(cs) |->
            <<1, vs[CHOOSE i \in cs : Cardinality({i2 \in cs : i2 < i}) = j - 1]>>]

\* Monomials carry their variable's index.
resolve(vs, terms) == [i \in DOMAIN terms |-> <<terms[i][1], IndexOf(vs, terms[i][2])>>]

\* The vars, csp and Q handed to ILP::new.
build_ilp(p) ==
    LET ranks == SortedNats(DOMAIN p.locs_by_level)
        lvls  == SortedNats(DOMAIN p.hops_by_level)
        gets  == Flatten([i \in DOMAIN ranks |->
                            rank_gets(ranks[i], Len(p.locs_by_level[ranks[i]]))]) \o
                 Flatten([i \in DOMAIN lvls |->
                            hop_gets(lvls[i], p.hops_by_level[lvls[i]])])
        vs    == register(gets, << >>)
        rows  == Flatten([i \in DOMAIN ranks |->
                            rank_rows(ranks[i], Len(p.locs_by_level[ranks[i]]))]) \o
                 Flatten([i \in DOMAIN lvls |->
                            hop_rows(lvls[i], p.hops_by_level[lvls[i]])]) \o
                 bound_rows(vs)
    IN [vars |-> vs,
        csp  |-> [i \in DOMAIN rows |->
                    Row(rows[i].lo, resolve(vs, rows[i].terms), rows[i].hi)],
        obj  |-> resolve(vs, objective(vs))]

----------------------------------------------------------------------------
\* osqp::ILPInstance: vars, csp and obj, as of the ILP for the first instance
\* of the queue.
\*
\* A vector xs of the relaxation holds multiples of 1/Scale: xs[i + 1] = v
\* stands for the f64 value v / Scale of the variable of index i.

ILPInstance(vs, csp, obj) == [vars |-> vs, csp |-> csp, obj |-> obj]

\* The values a converged relaxation answers with.
Grid == {(k * Scale) \div GridSteps : k \in 0..GridSteps}

RECURSIVE dot(_, _)
dot(terms, xs) ==
    IF terms = << >> THEN 0
    ELSE Head(terms)[1] * xs[Head(terms)[2] + 1] + dot(Tail(terms), xs)

row_indices(r) == {r.terms[i][2] : i \in DOMAIN r.terms}

\* l <= a.x <= u
row_holds(r, xs) ==
    LET asum == dot(r.terms, xs)
    IN r.lo * Scale <= asum /\ asum <= r.hi * Scale

\* The feasible vectors, built one variable at a time: a row is applied as
\* soon as its last variable has a value.  Where least[k], the variable is met
\* by no row that reaches a later variable and has a positive cost, so that a
\* minimiser always gives it its least feasible value and only that value is
\* kept.
RECURSIVE extend(_, _, _, _, _, _)
extend(n, rowsAt, least, values, k, P) ==
    IF k > n \/ P = {} THEN P
    ELSE LET vals(p) == {v \in values : \A r \in rowsAt[k] : row_holds(r, Append(p, v))}
         IN extend(n, rowsAt, least, values, k + 1,
                UNION {LET vs == vals(p)
                       IN IF vs = {} THEN {}
                          ELSE IF least[k] THEN {Append(p, Min(vs))}
                          ELSE {Append(p, v) : v \in vs} : p \in P})

\* The rows whose last variable is the k-th.
rows_ending_at(n, csp) ==
    [k \in 1..n |->
        {csp[i] : i \in {j \in DOMAIN csp : Max(row_indices(csp[j])) = k - 1}}]

\* ILPInstance::solve_relaxation: the external solver is given the linear
\* program min q.x subject to l <= Ax <= u (P is zero).  It answers with a
\* minimiser, any of them, or fails when there is none; the result is the set
\* of vectors it may answer with, empty for the failure.
solve_relaxation(I, csp) ==
    LET n      == Len(I.vars)
        cost   == [k \in 1..n |-> dot(I.obj, [i \in 1..n |-> IF i = k THEN 1 ELSE 0])]
        least  == [k \in 1..n |->
                    /\ cost[k] > 0
                    /\ \A i \in DOMAIN csp :
                        (k - 1) \in row_indices(csp[i]) => Max(row_indices(csp[i])) = k - 1]
        pts    == extend(n, rows_ending_at(n, csp), least, Grid, 1, {<< >>})
        best   == Min({dot(I.obj, p) : p \in pts})
    IN IF pts = {} THEN {} ELSE {p \in pts : dot(I.obj, p) = best}

\* f64::round on a value of [0, 1].
round(v) == IF 2 * v >= Scale THEN Scale ELSE 0

\* (x.round() - x).abs() >= eps_abs, eps_abs = 0.1
is_fractional(v) ==
    LET d == IF round(v) >= v THEN round(v) - v ELSE v - round(v)
    IN 10 * d >= Scale

\* l - eps_abs_infeas > asum || asum > u + eps_abs_infeas, on the rounded xs
row_infeasible(r, xs) ==
    LET asum == dot(r.terms, [i \in DOMAIN xs |-> round(xs[i])])
    IN 10 * r.lo * Scale - Scale > 10 * asum \/ 10 * asum > 10 * r.hi * Scale + Scale

Status(kind, arg, bound, xs) == [kind |-> kind, arg |-> arg, bound |-> bound, xs |-> xs]

\* A variant of not_as_good that lets an equal bound pass.
not_as_good_strict(bound, best_alternative) == bound > best_alternative * Scale

\* if bound >= best_alternative: both sides in units of 1/Scale.
not_as_good(bound, best_alternative) == bound >= best_alternative * Scale

\* A variant of actual_bound that counts the first monomial only.
actual_bound_first_monomial(obj, xs) ==
    IF obj = << >> THEN 0 ELSE dot(<<obj[1]>>, [i \in DOMAIN xs |-> round(xs[i])]) \div Scale

\* The objective on the rounded xs.
actual_bound(obj, xs) == dot(obj, [i \in DOMAIN xs |-> round(xs[i])]) \div Scale

\* ILPInstance::solve after the relaxation has answered xs.
instance_status(I, csp, best_alternative, xs) ==
    LET bound == dot(I.obj, xs)
        fracs == {i \in DOMAIN xs : is_fractional(xs[i])}
        bad   == {i \in DOMAIN csp : row_infeasible(csp[i], xs)}
    IN IF not_as_good(bound, best_alternative)
       THEN Status("NotAsGood", 0, 0, << >>)
       ELSE IF fracs # {}
       THEN Status("NotIntegral", Min(fracs) - 1, 0, << >>)
       ELSE IF bad # {}
       THEN Status("IntegerInfeasible", Min(bad) - 1, 0, << >>)
       ELSE Status("Solved", 0, actual_bound(I.obj, xs), xs)

\* The Result of solve_relaxation: Ok((bound, xs)) or Err.
Relaxed(xs, bound) == [kind |-> "Ok", bound |-> bound, xs |-> xs]
RelaxedErr == [kind |-> "Err", bound |-> 0, xs |-> << >>]
NoRelaxation == [kind |-> "None", bound |-> 0, xs |-> << >>]

\* What solve_relaxation may answer when the solver converges: a minimiser
\* with its objective, or the error when the program has no solution.
relaxation_results(inst) ==
    LET xss == solve_relaxation(inst, inst.csp)
    IN IF xss = {} THEN {RelaxedErr}
       ELSE {Relaxed(xs, dot(inst.obj, xs)) : xs \in xss}

\* The values of a vector that solve_relaxation hands on: 0, 0.1, 0.5 and 1.
\* (0.9 is left out: in f64, 1.0 - 0.9 is below 0.1.)
AcceptedValues == {0, 1, Scale \div 2, Scale}

\* What solve_relaxation may answer at all.  It hands on the solution of the
\* statuses Solved, SolvedInaccurate, MaxIterationsReached and
\* TimeLimitReached, of which the last three promise neither a minimiser nor
\* a vector that satisfies the rows, and answers any other status with the
\* error.
accepted_results(inst) ==
    {RelaxedErr} \cup
    {Relaxed(xs, dot(inst.obj, xs)) : xs \in [1..Len(inst.vars) -> AcceptedValues]}

\* ILPInstance::solve: the status reported on an answer of solve_relaxation.
instance_solve(inst, best_alternative, rel) ==
    IF rel.kind = "Err" THEN Status("Err", 0, 0, << >>)
    ELSE instance_status(inst, inst.csp, best_alternative, rel.xs)

----------------------------------------------------------------------------
\* The inputs.

\* The names, the adjacent pairs of the paths, and for every pair the kinds of
\* its actions and percepts that are not empty, in the order of the facts.
LabelledFacts(V, E, K) == [nodes |-> V, edges |-> E, kinds |-> K]

Facts(V, E) == LabelledFacts(V, E, [e \in E |-> << >>])

\* Every graph on at most MaxNodes names with at most MaxEdges edges.
FamilyFacts ==
    UNION {{Facts(V, E) : E \in {F \in SUBSET (V \X V) : Cardinality(F) <= MaxEdges}} :
           V \in SUBSET Names}

\* The scenarios of the tests and of the specification.
RootOnly     == Facts({}, {})
Isolated1    == Facts({1}, {})
Isolated2    == Facts({1, 2}, {})
Isolated3    == Facts({1, 2, 3}, {})
\* "A c q" and "d e af", with A < af < c < d < e < q as 1..6.
NoSwaps      == Facts(1..6, {<<1, 3>>, <<3, 6>>, <<4, 5>>, <<5, 2>>})
\* a -> d and b -> c.
TwoEdges     == Facts(1..4, {<<1, 4>>, <<2, 3>>})
\* a -> c, a -> d, b -> c, b -> d.
K22          == Facts(1..4, {<<1, 3>>, <<1, 4>>, <<2, 3>>, <<2, 4>>})
\* p -> x, q -> y, r -> z.
Parallel3    == Facts(1..6, {<<1, 4>>, <<2, 5>>, <<3, 6>>})
\* a -> b -> c and a -> c.
MultiRank    == Facts(1..3, {<<1, 2>>, <<2, 3>>, <<1, 3>>})
\* a -> b -> c -> d and a -> d, b -> d.
LongHop      == Facts(1..4, {<<1, 2>>, <<2, 3>>, <<3, 4>>, <<1, 4>>, <<2, 4>>})
\* a -> b.
Chain        == Facts(1..2, {<<1, 2>>})

Scenarios ==
    {RootOnly, Isolated1, Isolated2, Isolated3, NoSwaps, TwoEdges, K22, MultiRank,
     LongHop, Chain}

\* The iteration orders of the vx_rank HashMap tried for a set of names; root
\* is alone on rank 0, so its place in the order is not observable.
AllOrders(V) == {<<root>> \o s : s \in Perms(V)}
TwoOrders(V) == {<<root>> \o SortedNats(V), <<root>> \o Reverse(SortedNats(V))}

NoGraph == [nodes |-> {}, edges |-> {}, edge_list |-> << >>]
NoPlacement ==
    [locs_by_level |-> EmptyMap, loc_to_node |-> EmptyMap, node_to_loc |-> EmptyMap,
     hops_by_level |-> EmptyMap, hops_by_edge |-> EmptyMap]

NoILP == [vars |-> << >>, csp |-> << >>, obj |-> << >>]
NoInstance == NoILP
NoLayoutProblem ==
    [all_locs |-> << >>, all_hops |-> << >>, sol_by_loc |-> EmptyMap, sol_by_hop |-> EmptyMap,
     width_by_loc |-> EmptyMap, width_by_hop |-> EmptyMap]
NoQP == [vars |-> << >>, csp |-> << >>, pd |-> << >>, q |-> << >>]
CscMatrix(nrows, ncols, indptr, indices, data) ==
    [nrows |-> nrows, ncols |-> ncols, indptr |-> indptr, indices |-> indices, data |-> data]
NoCsc == [rows |-> << >>, ncols |-> << >>, matrix |-> CscMatrix(0, 0, << >>, << >>, << >>)]
NoStatus == [kind |-> "None", arg |-> 0, bound |-> 0, xs |-> << >>]

InitLayout ==
    /\ pc = "calculate_vcg"
    /\ err = ""
    /\ vert = NoGraph
    /\ condensed = NoGraph
    /\ paths_by_rank = EmptyMap
    /\ placement = NoPlacement
    /\ ilp = NoILP
    /\ queue = << >>
    /\ instance = NoInstance
    /\ relaxation = NoRelaxation
    /\ inst_status = NoStatus
    /\ global_bound = INFINITY
    /\ global_xs = << >>
    /\ status = NoStatus
    /\ crossing_number = 0
    /\ solved_locs = EmptyMap
    /\ perm = << >>
    /\ minion_locs = EmptyMap
    /\ layout_problem = NoLayoutProblem
    /\ qp = NoQP
    /\ csc = NoCsc

----------------------------------------------------------------------------
\* The stages of the pipeline, in the order of tests::no_swaps.

CalculateVcg ==
    /\ pc = "calculate_vcg"
    /\ vert' = calculate_vcg(facts)
    /\ pc' = "condense"
    /\ UNCHANGED <<err, facts, vx_iter, condensed, paths_by_rank, placement>>
    /\ UNCHANGED <<vars_ilp, vars_result>>

Condense ==
    /\ pc = "condense"
    /\ condensed' = condense(vert)
    /\ pc' = "rank"
    /\ UNCHANGED <<err, facts, vx_iter, vert, paths_by_rank, placement>>
    /\ UNCHANGED <<vars_ilp, vars_result>>

Rank ==
    /\ pc = "rank"
    /\ LET fw == floyd_warshall(condensed)
       IN IF fw.ok
          THEN /\ paths_by_rank' = rank(condensed, roots(condensed), fw.dist)
               /\ pc' = "calculate_locs_and_hops"
               /\ err' = err
          ELSE /\ paths_by_rank' = paths_by_rank
               /\ pc' = "error"
               /\ err' = "NegativeCycleError"
    /\ UNCHANGED <<facts, vx_iter, vert, condensed, placement>>
    /\ UNCHANGED <<vars_ilp, vars_result>>

CalculateLocsAndHops ==
    /\ pc = "calculate_locs_and_hops"
    /\ IF locs_and_hops_panics(condensed, paths_by_rank)
       THEN /\ pc' = "error"
            /\ err' = "panic"
            /\ placement' = placement
       ELSE /\ placement' = calculate_locs_and_hops(condensed, paths_by_rank, vx_iter)
            /\ pc' = "minimize_edge_crossing"
            /\ err' = err
    /\ UNCHANGED <<facts, vx_iter, vert, condensed, paths_by_rank>>
    /\ UNCHANGED <<vars_ilp, vars_result>>

\* The pipeline up to the Placement, on every small graph.
InitPlacement ==
    /\ InitLayout
    /\ \/ /\ facts \in FamilyFacts
          /\ vx_iter \in AllOrders(facts.nodes)
       \/ /\ facts \in Scenarios
          /\ vx_iter \in TwoOrders(facts.nodes)

NextPlacement == CalculateVcg \/ Condense \/ Rank \/ CalculateLocsAndHops

SpecPlacement == InitPlacement /\ [][NextPlacement]_vars

----------------------------------------------------------------------------
\* miosqp::minimize_edge_crossing and ILP::solve.

\* if hops_by_level.is_empty()
no_hops(p) == DOMAIN p.hops_by_level = {}

\* A variant of at_most_one_hop that is content with one such rank.
at_most_one_hop_somewhere(p) ==
    \E lvl \in DOMAIN p.hops_by_level : Len(p.hops_by_level[lvl]) <= 1

\* if hops_by_level.iter().all(|(_lvl, hops)| hops.iter().count() <= 1)
at_most_one_hop(p) == \A lvl \in DOMAIN p.hops_by_level : Len(p.hops_by_level[lvl]) <= 1

\* A variant of identity_locs that numbers the solved ranks from 1.
identity_locs_from_one(locs_by_level) ==
    [lvl \in DOMAIN locs_by_level |->
        [n \in 0..(Len(locs_by_level[lvl]) - 1) |-> n + 1]]

\* The map built on the second fast path: every OHR keeps its place.
identity_locs(locs_by_level) ==
    [lvl \in DOMAIN locs_by_level |->
        [n \in 0..(Len(locs_by_level[lvl]) - 1) |-> n]]

\* return Ok((0, BTreeMap::new()))
MinimizeNoHops ==
    /\ pc = "minimize_edge_crossing"
    /\ no_hops(placement)
    /\ crossing_number' = 0
    /\ solved_locs' = EmptyMap
    /\ UNCHANGED <<perm, minion_locs, layout_problem, vars_geometry>>
    /\ pc' = "done"
    /\ UNCHANGED <<err, facts, vx_iter, vert, condensed, paths_by_rank, placement>>
    /\ UNCHANGED vars_ilp

\* return Ok((0, solved_locs)) with the identity on every rank
MinimizeAtMostOneHop ==
    /\ pc = "minimize_edge_crossing"
    /\ ~no_hops(placement)
    /\ at_most_one_hop(placement)
    /\ crossing_number' = 0
    /\ solved_locs' = identity_locs(placement.locs_by_level)
    /\ UNCHANGED <<perm, minion_locs, layout_problem, vars_geometry>>
    /\ pc' = "done"
    /\ UNCHANGED <<err, facts, vx_iter, vert, condensed, paths_by_rank, placement>>
    /\ UNCHANGED vars_ilp

\* ILP::new(vars.clone(), csp, Q) and the first lines of ILP::solve.
BuildILP ==
    /\ pc = "minimize_edge_crossing"
    /\ ~no_hops(placement)
    /\ ~at_most_one_hop(placement)
    /\ ilp' = build_ilp(placement)
    /\ queue' = <<ILPInstance(ilp'.vars, ilp'.csp, ilp'.obj)>>
    /\ global_bound' = INFINITY
    /\ global_xs' = << >>
    /\ pc' = "ilp_solve"
    /\ UNCHANGED <<err, facts, vx_iter, vert, condensed, paths_by_rank, placement>>
    /\ UNCHANGED <<instance, relaxation, inst_status, status, vars_result>>

\* while !queue.is_empty() { if global_bound == 0.0 { break } ... }
loop_done(q, bound, xs) == q = << >> \/ bound = 0

\* queue.swap(queue_len - 1, random_index); queue.pop(): what stays queued.
swap_pop(q, random_index) ==
    [i \in 1..(Len(q) - 1) |-> IF i = random_index THEN q[Len(q)] ELSE q[i]]

\* A variant of ceil_row without the upper bound.
ceil_row_open(split) == Row(1, <<<<1, split>>>>, INFINITY)

\* The rows pushed on the two children of an instance split on a variable.
floor_row(split) == Row(0, <<<<1, split>>>>, 0)
ceil_row(split) == Row(1, <<<<1, split>>>>, 1)

\* csp.push(row).  The model keeps at most MaxRepeat copies of a row: a row
\* that is pushed once more constrains nothing further.
push(csp, row) ==
    IF Cardinality({i \in DOMAIN csp : csp[i] = row}) >= MaxRepeat THEN csp
    ELSE Append(csp, row)

\* ILPInstance{vars: instance.vars.clone(), csp: instance.csp.clone(), obj:
\* instance.obj.clone()} with the row pushed on its csp.
child(inst, row) == ILPInstance(inst.vars, push(inst.csp, row), inst.obj)

\* One turn of the loop up to the match: an instance is swapped to the tail
\* and popped, and instance.solve(global_bound) answers.
PopAndSolve ==
    /\ pc = "ilp_solve"
    /\ ~loop_done(queue, global_bound, global_xs)
    /\ \E random_index \in 1..Len(queue) :
        /\ instance' = queue[random_index]
        /\ queue' = swap_pop(queue, random_index)
        /\ relaxation' \in relaxation_results(queue[random_index])
        /\ inst_status' = instance_solve(queue[random_index], global_bound, relaxation')
    /\ pc' = "match_status"
    /\ UNCHANGED <<err, facts, vx_iter, vert, condensed, paths_by_rank, placement>>
    /\ UNCHANGED <<ilp, global_bound, global_xs, status, vars_result>>

\* The same turn of the loop, with every answer that solve_relaxation may hand
\* on.  Beyond MaxQueue queued instances only the answers that do not branch
\* are followed.
PopAndSolveAccepted ==
    /\ pc = "ilp_solve"
    /\ ~loop_done(queue, global_bound, global_xs)
    /\ \E random_index \in 1..Len(queue) :
        /\ instance' = queue[random_index]
        /\ queue' = swap_pop(queue, random_index)
        /\ relaxation' \in accepted_results(queue[random_index])
        /\ inst_status' = instance_solve(queue[random_index], global_bound, relaxation')
        /\ Len(queue) > MaxQueue => inst_status'.kind # "NotIntegral"
    /\ pc' = "match_status"
    /\ UNCHANGED <<err, facts, vx_iter, vert, condensed, paths_by_rank, placement>>
    /\ UNCHANGED <<ilp, global_bound, global_xs, status, vars_result>>

\* Ok(ILPStatus::NotIntegral(split)): floor and ceil are queued.
MatchNotIntegral ==
    /\ pc = "match_status"
    /\ inst_status.kind = "NotIntegral"
    /\ queue' = queue \o <<child(instance, floor_row(inst_status.arg)),
                           child(instance, ceil_row(inst_status.arg))>>
    /\ instance' = NoInstance
    /\ relaxation' = NoRelaxation
    /\ inst_status' = NoStatus
    /\ pc' = "ilp_solve"
    /\ UNCHANGED <<err, facts, vx_iter, vert, condensed, paths_by_rank, placement>>
    /\ UNCHANGED <<ilp, global_bound, global_xs, status, vars_result>>

\* Ok(ILPStatus::IntegerInfeasible(_)) | Ok(ILPStatus::NotAsGood) => continue
\* and Err(_e) => continue: the instance is dropped and nothing else changes.
MatchContinue ==
    /\ pc = "match_status"
    /\ inst_status.kind \in {"IntegerInfeasible", "NotAsGood", "Err"}
    /\ instance' = NoInstance
    /\ relaxation' = NoRelaxation
    /\ inst_status' = NoStatus
    /\ pc' = "ilp_solve"
    /\ UNCHANGED <<err, facts, vx_iter, vert, condensed, paths_by_rank, placement>>
    /\ UNCHANGED <<ilp, queue, global_bound, global_xs, status, vars_result>>

\* A variant of improves with the comparison turned round.
improves_reversed(bound, best) == bound > best

\* A variant of improves that holds of the first solution alone.
improves_once(bound, best) == bound < best /\ best = INFINITY

\* if bound < global_bound
improves(bound, best) == bound < best

\* Ok(ILPStatus::Solved(bound, xs)): kept when better than the global bound.
MatchSolved ==
    /\ pc = "match_status"
    /\ inst_status.kind = "Solved"
    /\ IF improves(inst_status.bound, global_bound)
       THEN global_bound' = inst_status.bound /\ global_xs' = <<inst_status.xs>>
       ELSE UNCHANGED <<global_bound, global_xs>>
    /\ instance' = NoInstance
    /\ relaxation' = NoRelaxation
    /\ inst_status' = NoStatus
    /\ pc' = "ilp_solve"
    /\ UNCHANGED <<err, facts, vx_iter, vert, condensed, paths_by_rank, placement>>
    /\ UNCHANGED <<ilp, queue, status, vars_result>>

\* The end of ILP::solve: Solved(bound, xs), or the error "infeasible" that
\* minimize_edge_crossing propagates with `?`.
SolveReturn ==
    /\ pc = "ilp_solve"
    /\ loop_done(queue, global_bound, global_xs)
    /\ IF global_xs # << >>
       THEN /\ status' = Status("Solved", 0, global_bound, global_xs[1])
            /\ pc' = "solved"
            /\ err' = err
       ELSE /\ status' = Status("Err", 0, 0, << >>)
            /\ pc' = "error"
            /\ err' = "infeasible"
    /\ UNCHANGED <<facts, vx_iter, vert, condensed, paths_by_rank, placement>>
    /\ UNCHANGED <<ilp, queue, instance, relaxation, inst_status, global_bound, global_xs,
                   vars_result>>

\* solutions: every variable's rounded value.
solutions(I, xs) ==
    [sol \in Range(I.vars) |-> round(xs[IndexOf(I.vars, sol) + 1]) \div Scale]

\* The comparator of sort_unstable_by answers Less.
is_less(sols, lvl, a, b) ==
    X(lvl, a, b) \in DOMAIN sols /\ sols[X(lvl, a, b)] = 1

\* The insertion sort that sort_unstable_by runs on a short slice: the new
\* element moves left while the comparator puts it before its neighbour.
RECURSIVE insert_tail(_, _, _, _)
insert_tail(sols, lvl, sorted, x) ==
    IF sorted = << >> \/ ~is_less(sols, lvl, x, sorted[Len(sorted)])
    THEN Append(sorted, x)
    ELSE Append(insert_tail(sols, lvl, SubSeq(sorted, 1, Len(sorted) - 1), x),
                sorted[Len(sorted)])

\* A variant of sort_ohrs that leaves the OHRs as they are.
sort_ohrs_unsorted(sols, lvl, n, sorted) == [i \in 1..n |-> i - 1]

RECURSIVE sort_ohrs(_, _, _, _)
sort_ohrs(sols, lvl, n, sorted) ==
    IF Len(sorted) = n THEN sorted
    ELSE sort_ohrs(sols, lvl, n, insert_tail(sols, lvl, sorted, Len(sorted)))

\* The loop over the ranks: the OHRs 0..n-1 of a rank are sorted by the
\* comparator and each gets its position as SHR.
sorted_locs(sols, widths) ==
    [lvl \in DOMAIN widths |->
        LET ohrs == sort_ohrs(sols, lvl, widths[lvl], << >>)
        IN [n \in Range(ohrs) |-> (CHOOSE shr \in DOMAIN ohrs : ohrs[shr] = n) - 1]]

\* The SolvedLocs read off the solution of the ILP.
recover_locs(I, locs_by_level, xs) ==
    sorted_locs(solutions(I, xs), [lvl \in DOMAIN locs_by_level |-> Len(locs_by_level[lvl])])

\* Ok((0, solved_locs)): the bound that ILP::solve found is not returned.
returned_crossing_number(bound) == 0

\* minimize_edge_crossing after ilp.solve()? has answered Solved(bound, xs).
RecoverLocs ==
    /\ pc = "solved"
    /\ solved_locs' = recover_locs(ilp, placement.locs_by_level, status.xs)
    /\ crossing_number' = returned_crossing_number(status.bound)
    /\ UNCHANGED <<perm, minion_locs, layout_problem, vars_geometry>>
    /\ pc' = "done"
    /\ UNCHANGED <<err, facts, vx_iter, vert, condensed, paths_by_rank, placement>>
    /\ UNCHANGED vars_ilp

\* geometry::calculate_sols: all_locs and sol_by_loc.

LocRow(ovr, ohr, shr, loc, n) == [ovr |-> ovr, ohr |-> ohr, shr |-> shr, loc |-> loc, n |-> n]

\* A variant of loc_keys that walks each rank in the order of the SHRs.
loc_keys_by_shr(sl) ==
    LET by_shr == SortedPairs(UNION {{<<ovr, sl[ovr][ohr]>> : ohr \in DOMAIN sl[ovr]} :
                                        ovr \in DOMAIN sl})
    IN [i \in DOMAIN by_shr |->
            <<by_shr[i][1],
              CHOOSE ohr \in DOMAIN sl[by_shr[i][1]] : sl[by_shr[i][1]][ohr] = by_shr[i][2]>>]

\* solved_locs.iter().flat_map(|(ovr, nodes)| nodes.iter()...): both maps are
\* BTreeMaps, so the pairs (ovr, ohr) come in ascending order.
loc_keys(sl) ==
    SortedPairs(UNION {{<<ovr, ohr>> : ohr \in DOMAIN sl[ovr]} : ovr \in DOMAIN sl})

\* .enumerate().map(|(n, (ovr, ohr, shr, loc))| LocRow{.., n: LocSol(n)})
all_locs(sl, loc_to_node) ==
    LET keys == loc_keys(sl)
    IN [i \in DOMAIN keys |->
            LocRow(keys[i][1], keys[i][2], sl[keys[i][1]][keys[i][2]],
                   loc_to_node[keys[i]], i - 1)]

\* for LocRow{ovr, ohr, n, ..} in all_locs.iter() { sol_by_loc.insert((*ovr, *ohr), *n) }
RECURSIVE sol_by_loc(_, _)
sol_by_loc(rows, acc) ==
    IF rows = << >> THEN acc
    ELSE sol_by_loc(Tail(rows), Put(acc, <<rows[1].ovr, rows[1].ohr>>, rows[1].n))

HopRow(lvl, mhr, nhr, vl, wl, n) ==
    [lvl |-> lvl, mhr |-> mhr, nhr |-> nhr, vl |-> vl, wl |-> wl, n |-> n]

\* all_hops: the hops of hops_by_level, rank by rank, chained with one row an
\* edge of hops_by_edge that stands below the edge's last hop, then numbered.
all_hops(hops_by_level, hops_by_edge) ==
    LET lvls == SortedNats(DOMAIN hops_by_level)
        es   == SortedPairs(DOMAIN hops_by_edge)
        hs   == Flatten([i \in DOMAIN lvls |-> hops_by_level[lvls[i]]]) \o
                [i \in DOMAIN es |->
                    LET hops == hops_by_edge[es[i]]
                        lvl  == Max(DOMAIN hops)
                    IN Hop(hops[lvl][2], UsizeMax - hops[lvl][1], es[i][1], es[i][2], lvl + 1)]
    IN [i \in DOMAIN hs |-> HopRow(hs[i].lvl, hs[i].mhr, hs[i].nhr, hs[i].vl, hs[i].wl, i - 1)]

\* for HopRow{lvl, mhr, vl, wl, n, ..} in all_hops.iter() { sol_by_hop.insert(.., *n) }
RECURSIVE sol_by_hop(_, _)
sol_by_hop(rows, acc) ==
    IF rows = << >> THEN acc
    ELSE sol_by_hop(Tail(rows),
                    Put(acc, <<rows[1].lvl, rows[1].mhr, rows[1].vl, rows[1].wl>>, rows[1].n))

\* The LayoutProblem returned: the widths are empty maps.
calculate_sols(sl, p) ==
    LET rows == all_locs(sl, p.loc_to_node)
        hops == all_hops(p.hops_by_level, p.hops_by_edge)
    IN [all_locs |-> rows, all_hops |-> hops,
        sol_by_loc |-> sol_by_loc(rows, EmptyMap),
        sol_by_hop |-> sol_by_hop(hops, EmptyMap),
        width_by_loc |-> EmptyMap, width_by_hop |-> EmptyMap]

\* tests::no_swaps after minimize_edge_crossing: calculate_sols, where
\* &loc_to_node[&(*ovr, *ohr)] panics on a missing key.
CalculateSols ==
    /\ pc = "done"
    /\ IF \A k \in Range(loc_keys(solved_locs)) : k \in DOMAIN placement.loc_to_node
       THEN /\ layout_problem' = calculate_sols(solved_locs, placement)
            /\ pc' = "laid_out"
            /\ err' = err
       ELSE /\ layout_problem' = layout_problem
            /\ pc' = "error"
            /\ err' = "loc_to_node: key not found"
    /\ UNCHANGED <<facts, vx_iter, vert, condensed, paths_by_rank, placement>>
    /\ UNCHANGED <<vars_ilp, crossing_number, solved_locs, perm, minion_locs, vars_geometry>>

----------------------------------------------------------------------------
\* geometry::position_sols: the quadratic program handed to the QP solver.
\* Widths and the constants of rows are held in tenths, as the values of a
\* relaxation are.

\* let sep = 20.0;
sep == 20

\* let symmetry_cost = 100.0;
symmetry_cost == 100

\* let default_hop_width = (20.0, 20.0);
default_hop_width == <<20 * Scale, 20 * Scale>>

\* AnySol::L(n), R(n) of a LocSol, S(n) of a HopSol and T(i), the fresh one.
AnySol(kind, n) == <<kind, n>>

\* Constraints::leq: nothing is pushed when both sides are one variable.
leq(st, lhs, rhs) ==
    IF lhs = rhs THEN st
    ELSE [st EXCEPT !.vars = register(<<lhs, rhs>>, @),
                    !.csp = Append(@, Row(0, <<<<-1, lhs>>, <<1, rhs>>>>, INFINITY))]

\* Constraints::leqc: c <= -lhs + rhs.
leqc(st, lhs, rhs, c) ==
    [st EXCEPT !.vars = register(<<lhs, rhs>>, @),
               !.csp = Append(@, Row(c, <<<<-1, lhs>>, <<1, rhs>>>>, INFINITY))]

\* Constraints::geqc: c <= lhs - rhs.
geqc(st, lhs, rhs, c) ==
    [st EXCEPT !.vars = register(<<lhs, rhs>>, @),
               !.csp = Append(@, Row(c, <<<<1, lhs>>, <<-1, rhs>>>>, INFINITY))]

\* A variant of sym whose auxiliary variable is T(0) in every call.
sym_one_t(st, lhs, rhs) ==
    LET t == AnySol("T", 0)
    IN [st EXCEPT !.vars = register(<<t, lhs, rhs>>, @),
                  !.pd = Append(@, <<symmetry_cost, t>>),
                  !.csp = Append(@, Row(0, <<<<1, t>>, <<-1, lhs>>, <<1, rhs>>>>, 0))]

\* Constraints::sym: t = v.get(S::fresh(v.vars.len())), pd.push(100 * t) and
\* the row 0 <= t - lhs + rhs <= 0.
sym(st, lhs, rhs) ==
    LET t == AnySol("T", Len(st.vars))
    IN [st EXCEPT !.vars = register(<<t, lhs, rhs>>, @),
                  !.pd = Append(@, <<symmetry_cost, t>>),
                  !.csp = Append(@, Row(0, <<<<1, t>>, <<-1, lhs>>, <<1, rhs>>>>, 0))]

\* The calls position_sols makes of C, in the order it makes them; emit makes
\* them, the first half of a list evaluated before the second is begun.
Call(op, lhs, rhs, c) == [op |-> op, lhs |-> lhs, rhs |-> rhs, c |-> c]

RECURSIVE emit(_, _)
emit(st, calls) ==
    IF calls = << >> THEN st
    ELSE IF Len(calls) = 1
    THEN LET o == calls[1]
         IN CASE o.op = "leq"  -> leq(st, o.lhs, o.rhs)
              [] o.op = "leqc" -> leqc(st, o.lhs, o.rhs, o.c)
              [] o.op = "geqc" -> geqc(st, o.lhs, o.rhs, o.c)
              [] o.op = "sym"  -> sym(st, o.lhs, o.rhs)
    ELSE LET h   == Len(calls) \div 2
             mid == emit(st, SubSeq(calls, 1, h))
         IN IF Len(mid.vars) >= 0
            THEN emit(mid, SubSeq(calls, h + 1, Len(calls)))
            ELSE mid

\* min_width.round() as usize, of a width that is not negative: the nearest
\* whole number, a half going up.
round_as_usize(x) == (2 * x + Scale) \div (2 * Scale)

\* Vec::sort_by_key over keys that differ, and the iteration of a HashSet,
\* whose order is one of two here.
sort_by_key(S, key(_)) ==
    LET ks == SortedNats({key(o) : o \in S})
    IN [i \in DOMAIN ks |-> CHOOSE o \in S : key(o) = ks[i]]

\* enum Loc2: Node{vl, loc, shr, sol} and Hop{vl, wl, loc, shr, sol, pshr};
\* pshr = None is -1, and a Node repeats vl for wl.
Loc2(kind, vl, wl, loc, shr, sol, pshr) ==
    [kind |-> kind, vl |-> vl, wl |-> wl, loc |-> loc, shr |-> shr, sol |-> sol,
     pshr |-> pshr]

hash_set_iter(S, rev) ==
    LET s == sort_by_key(S, LAMBDA o : (IF o.kind = "Node" THEN 0 ELSE 1) + 2 * (o.pshr + 1)
                                        + 1000 * o.sol)
    IN IF rev THEN Reverse(s) ELSE s

\* level_to_object, as the set of its objects: the cell of an object is
\* (loc[1], shr).
level_to_object(pl, sl, lp) ==
    UNION {LET vl   == e[1]
               wl   == e[2]
               vn   == pl.node_to_loc[Node(vl)]
               wn   == pl.node_to_loc[Node(wl)]
               hops == pl.hops_by_edge[e]
           IN {Loc2("Node", vl, vl, vn, sl[vn[1]][vn[2]], lp.sol_by_loc[vn], -1),
               Loc2("Node", wl, wl, wn, sl[wn[1]][wn[2]], lp.sol_by_loc[wn], -1)} \cup
              UNION {LET mhr == hops[lvl][1]
                         nhr == hops[lvl][2]
                         shr == sl[lvl][mhr]
                     IN {Loc2("Hop", vl, wl, <<lvl, mhr>>, shr,
                              lp.sol_by_hop[<<lvl, mhr, vl, wl>>], -1),
                         Loc2("Hop", vl, wl, <<lvl + 1, nhr>>, sl[lvl + 1][nhr],
                              lp.sol_by_hop[<<lvl + 1, nhr, vl, wl>>], shr)} :
                     lvl \in DOMAIN hops} :
           e \in DOMAIN pl.hops_by_edge}

\* The first hops of the outgoing edges of vl and the last hops of its
\* incoming edges, as keys of width_by_hop.
v_out_first_hops(dag, pl, vl) ==
    {LET hops == pl.hops_by_edge[<<vl, wl>>]
         lvl  == Min(DOMAIN hops)
     IN <<lvl, hops[lvl][1], vl, wl>> : wl \in {w \in dag.nodes : <<vl, w>> \in dag.edges}}

w_in_last_hops(dag, pl, wl) ==
    {LET hops == pl.hops_by_edge[<<vl, wl>>]
         lvl  == Max(DOMAIN hops)
     IN <<lvl, hops[lvl][1], vl, wl>> : vl \in {v \in dag.nodes : <<v, wl>> \in dag.edges}}

\* .map(|idx| { let widths = width_by_hop[idx]; widths.0 + widths.1 }).sum()
RECURSIVE sum_widths(_, _)
sum_widths(idxs, width_by_hop) ==
    IF idxs = {} THEN 0
    ELSE LET idx == CHOOSE i \in idxs : TRUE
         IN width_by_hop[idx][1] + width_by_hop[idx][2] +
            sum_widths(idxs \ {idx}, width_by_hop)

\* min_width = max(orig_width, max(in_width, out_width)), each of them rounded.
min_width(dag, pl, lp, row) ==
    LET orig_width == round_as_usize(lp.width_by_loc[<<row.ovr, row.ohr>>])
    IN IF row.loc.kind = "Node"
       THEN Max({orig_width,
                 round_as_usize(sum_widths(w_in_last_hops(dag, pl, row.loc.vl), lp.width_by_hop)),
                 round_as_usize(sum_widths(v_out_first_hops(dag, pl, row.loc.vl), lp.width_by_hop))})
       ELSE orig_width

\* A variant of position_of_shr that takes the SHR itself for the place.
position_is_shr(locs, s) == s

\* locs.iter().position(|(_, shrp)| *shrp == s): the place, in the order of
\* the OHRs, of the first loc of the rank whose SHR is s.
position_of_shr(locs, s) ==
    LET ohrs == SortedNats(DOMAIN locs)
    IN Min({i \in DOMAIN ohrs : locs[ohrs[i]] = s}) - 1

\* One turn of the loop over all_locs.
loc_calls(dag, pl, sl, lp, root_n, row) ==
    LET ovr  == row.ovr
        ohr  == row.ohr
        locs == sl[ovr]
        shr  == locs[ohr]
        n    == lp.sol_by_loc[<<ovr, ohr>>]
        w    == min_width(dag, pl, lp, row)
    IN (IF row.loc.kind = "Hop"
        THEN LET ns == lp.sol_by_hop[<<ovr, ohr, row.loc.vl, row.loc.wl>>]
             IN <<Call("leq", AnySol("L", n), AnySol("S", ns), 0),
                  Call("leq", AnySol("S", ns), AnySol("R", n), 0)>>
        ELSE << >>) \o
       <<Call("leq", AnySol("L", root_n), AnySol("L", n), 0),
         Call("leq", AnySol("R", n), AnySol("R", root_n), 0),
         Call("leqc", AnySol("L", n), AnySol("R", n), w * Scale)>> \o
       (IF shr > 0
        THEN LET np == lp.sol_by_loc[<<ovr, position_of_shr(locs, shr - 1)>>]
             IN <<Call("leqc", AnySol("R", np), AnySol("L", n), sep * Scale)>>
        ELSE << >>) \o
       (IF shr < Cardinality(DOMAIN locs) - 1
        THEN LET nn == lp.sol_by_loc[<<ovr, position_of_shr(locs, shr + 1)>>]
             IN <<Call("leqc", AnySol("R", n), AnySol("L", nn), sep * Scale)>>
        ELSE << >>)

\* The rows between the neighbours of a sorted list of hops that share a node.
neighbour_calls(hops, lp) ==
    Flatten([ox \in DOMAIN hops |->
        LET owidth == GetOr(lp.width_by_hop,
                            <<hops[ox].loc[1], hops[ox].loc[2], hops[ox].vl, hops[ox].wl>>,
                            default_hop_width)
            width_of(o) == GetOr(lp.width_by_hop, <<o.loc[1], o.loc[2], o.vl, o.wl>>,
                                 default_hop_width)
        IN (IF ox > 1
            THEN <<Call("leqc", AnySol("S", hops[ox - 1].sol), AnySol("S", hops[ox].sol),
                        sep * Scale + width_of(hops[ox - 1])[2] + owidth[1])>>
            ELSE << >>) \o
           (IF ox < Len(hops)
            THEN <<Call("leqc", AnySol("S", hops[ox].sol), AnySol("S", hops[ox + 1].sol),
                        sep * Scale + width_of(hops[ox + 1])[1] + owidth[2])>>
            ELSE << >>)])

\* let terminal = nhr.0 > num_objects;
terminal(h, num_objects) == h.nhr > num_objects

\* One turn of the loop over all_hops.
hop_calls(pl, sl, lp, lto, root_n, rev, h) ==
    LET shr == sl[h.lvl][h.mhr]
        n   == lp.sol_by_hop[<<h.lvl, h.mhr, h.vl, h.wl>>]
        all_objects == {o \in lto : o.loc[1] = h.lvl /\ o.shr = shr}
        node        == {o \in all_objects : o.kind = "Node"}
        num_objects == Cardinality(lto)
        is_terminal == terminal(h, num_objects)
        widths      == GetOr(lp.width_by_hop, <<h.lvl, h.mhr, h.vl, h.wl>>, default_hop_width)
        action_width  == widths[1]
        percept_width == widths[2]
        width_of(o) == GetOr(lp.width_by_hop, <<o.loc[1], o.loc[2], o.vl, o.wl>>,
                             default_hop_width)
        terminal_hops ==
            sort_by_key({o \in all_objects : o.kind = "Hop" /\ o.wl = h.wl /\ o.pshr # -1},
                        LAMBDA o : o.pshr)
        initial_hops ==
            sort_by_key({o \in all_objects :
                            o.kind = "Hop" /\ o.vl = h.vl /\ o.loc[2] <= num_objects},
                        LAMBDA o : LET hops == pl.hops_by_edge[<<o.vl, o.wl>>]
                                       hvr  == Min(DOMAIN hops)
                                   IN sl[hvr + 1][hops[hvr][2]])
        left_objects  == hash_set_iter({o \in lto : o.loc[1] = h.lvl /\ o.shr = shr - 1}, rev)
        right_objects == hash_set_iter({o \in lto : o.loc[1] = h.lvl /\ o.shr = shr + 1}, rev)
    IN <<Call("leqc", AnySol("L", root_n), AnySol("S", n), action_width),
         Call("leqc", AnySol("S", n), AnySol("R", root_n), percept_width)>> \o
       (IF ~is_terminal
        THEN <<Call("sym", AnySol("S", n),
                    AnySol("S", lp.sol_by_hop[<<h.lvl + 1, h.nhr, h.vl, h.wl>>]), 0)>>
        ELSE << >>) \o
       (IF node # {}
        THEN LET nd == (CHOOSE o \in node : TRUE).sol
             IN <<Call("geqc", AnySol("S", n), AnySol("L", nd), sep * Scale + action_width),
                  Call("leqc", AnySol("S", n), AnySol("R", nd), sep * Scale + percept_width)>>
                \o neighbour_calls(IF is_terminal THEN terminal_hops ELSE initial_hops, lp)
        ELSE << >>) \o
       [i \in DOMAIN left_objects |->
            LET lo == left_objects[i]
            IN IF lo.kind = "Node"
               THEN Call("geqc", AnySol("S", n), AnySol("L", lo.sol),
                         sep * Scale + action_width)
               ELSE Call("geqc", AnySol("S", n), AnySol("S", lo.sol),
                         2 * sep * Scale + width_of(lo)[2] + action_width)] \o
       [i \in DOMAIN right_objects |->
            LET ro == right_objects[i]
            IN IF ro.kind = "Node"
               THEN Call("leqc", AnySol("S", n), AnySol("L", ro.sol),
                         sep * Scale + action_width)
               ELSE Call("leqc", AnySol("S", n), AnySol("S", ro.sol),
                         2 * sep * Scale + width_of(ro)[1] + percept_width)]

\* for (sol, var) in V.iter(): a row 0 <= var for every L, R and S.  V.iter()
\* walks a HashMap, and the rows come here in the order of the indices.
non_negativity(st, sols) ==
    LET lrs == SelectSeq(sols, LAMBDA sol : sol[1] \in {"L", "R", "S"})
    IN [st EXCEPT !.csp = @ \o [i \in DOMAIN lrs |-> Row(0, <<<<1, lrs[i]>>>>, INFINITY)]]

\* position_sols up to the call of the solver: V, C, Pd and Q.
position_sols(dag, pl, sl, lp, rev) ==
    LET root_n == lp.sol_by_loc[<<0, 0>>]
        st0 == [vars |-> <<AnySol("R", root_n)>>, csp |-> << >>, pd |-> << >>,
                q |-> <<<<1, AnySol("R", root_n)>>>>]
        lto == level_to_object(pl, sl, lp)
        st1 == emit(st0, Flatten([i \in DOMAIN lp.all_locs |->
                                    loc_calls(dag, pl, sl, lp, root_n, lp.all_locs[i])]))
        st2 == emit(st1, Flatten([i \in DOMAIN lp.all_hops |->
                                    hop_calls(pl, sl, lp, lto, root_n, rev, lp.all_hops[i])]))
    IN non_negativity(st2, st2.vars)

\* What ends position_sols before the solver is called: the index of
\* sol_by_loc for the root, the width of a loc that has none, and the indices
\* hops_by_edge[..] and width_by_hop[idx] of a node's edges.
position_sols_failure(dag, pl, lp) ==
    IF <<0, 0>> \notin DOMAIN lp.sol_by_loc THEN "sol_by_loc: key not found"
    ELSE LET failure(row) ==
                IF <<row.ovr, row.ohr>> \notin DOMAIN lp.width_by_loc
                THEN "missing node width"
                ELSE IF row.loc.kind = "Node" /\
                        \E e \in dag.edges :
                            /\ row.loc.vl \in {e[1], e[2]}
                            /\ e \notin DOMAIN pl.hops_by_edge
                THEN "hops_by_edge: key not found"
                ELSE IF row.loc.kind = "Node" /\
                        \E idx \in v_out_first_hops(dag, pl, row.loc.vl) \cup
                                   w_in_last_hops(dag, pl, row.loc.vl) :
                            idx \notin DOMAIN lp.width_by_hop
                THEN "width_by_hop: key not found"
                ELSE ""
             failed == {i \in DOMAIN lp.all_locs : failure(lp.all_locs[i]) # ""}
         IN IF failed = {} THEN "" ELSE failure(lp.all_locs[Min(failed)])

\* The widths the front end measures: every loc gets the width of its label
\* and every hop of hops_by_level (a row whose nhr is an OHR) its pair of widths, the action width
\* growing with the rank; or the table named by gap is left short.
measure(lp, label, hop, gap) ==
    [lp EXCEPT
        !.width_by_loc =
            [k \in {<<lp.all_locs[i].ovr, lp.all_locs[i].ohr>> :
                        i \in (DOMAIN lp.all_locs) \
                              (IF gap = "loc" THEN {Len(lp.all_locs)} ELSE {})} |-> label],
        !.width_by_hop =
            [k \in {<<lp.all_hops[i].lvl, lp.all_hops[i].mhr, lp.all_hops[i].vl,
                      lp.all_hops[i].wl>> :
                        i \in {j \in DOMAIN lp.all_hops :
                                  gap # "hop" /\ lp.all_hops[j].nhr < UsizeMax \div 2}} |->
                <<hop[1] + Scale * k[1], hop[2]>>]]

\* The front end fills width_by_loc and width_by_hop.
SetWidths ==
    /\ pc = "laid_out"
    /\ \E m \in Measurements :
            layout_problem' = measure(layout_problem, m.label, m.hop, m.gap)
    /\ pc' = "measured"
    /\ UNCHANGED <<err, facts, vx_iter, vert, condensed, paths_by_rank, placement>>
    /\ UNCHANGED <<vars_ilp, crossing_number, solved_locs, perm, minion_locs, vars_geometry>>

\* position_sols: an Err, a panic, or the program for the solver.
PositionSols ==
    /\ pc = "measured"
    /\ LET failure == position_sols_failure(vert, placement, layout_problem)
       IN IF failure # ""
          THEN /\ pc' = "error"
               /\ err' = failure
               /\ qp' = qp
          ELSE /\ pc' = "positioned"
               /\ err' = err
               /\ \E rev \in BOOLEAN :
                    qp' = position_sols(vert, placement, solved_locs, layout_problem, rev)
    /\ UNCHANGED <<facts, vx_iter, vert, condensed, paths_by_rank, placement, csc>>
    /\ UNCHANGED <<vars_ilp, crossing_number, solved_locs, perm, minion_locs, layout_problem>>


\* The pipeline of tests::no_swaps on the scenarios.
Init ==
    /\ InitLayout
    /\ facts \in Scenarios
    /\ vx_iter \in TwoOrders(facts.nodes)

Next ==
    \/ CalculateVcg
    \/ Condense
    \/ Rank
    \/ CalculateLocsAndHops
    \/ MinimizeNoHops
    \/ MinimizeAtMostOneHop
    \/ BuildILP
    \/ PopAndSolve
    \/ MatchNotIntegral
    \/ MatchContinue
    \/ MatchSolved
    \/ SolveReturn
    \/ RecoverLocs
    \/ CalculateSols
    \/ SetWidths
    \/ PositionSols

Spec == Init /\ [][Next]_vars

\* The same pipeline on the scenarios with three locs on a rank; the order of
\* the pushes on locs_by_level is read by nothing, so one order is taken.
InitParallel ==
    /\ InitLayout
    /\ facts \in {RootOnly, Isolated1, K22, NoSwaps, Parallel3}
    /\ vx_iter = <<root>> \o SortedNats(facts.nodes)

SpecParallel == InitParallel /\ [][Next]_vars

----------------------------------------------------------------------------
\* ILP::solve on its own, on small programs, with every answer that
\* solve_relaxation may hand on.

\* minimise x0 with 0 <= x0 <= 1.
ILPOne == ILPInstance(<<X(0, 0, 1)>>, <<Row(0, <<<<1, 0>>>>, 1)>>, <<<<1, 0>>>>)
\* minimise x0 + x1 with 0 <= x0, x1 <= 1 and 1 <= x0 + x1.
ILPCover ==
    ILPInstance(<<X(0, 0, 1), X(0, 1, 0)>>,
                <<Row(0, <<<<1, 0>>>>, 1), Row(0, <<<<1, 1>>>>, 1),
                  Row(1, <<<<1, 0>>, <<1, 1>>>>, INFINITY)>>,
                <<<<1, 0>>, <<1, 1>>>>)
\* minimise x0 with 0 <= x0 <= 1 and 2 x0 = 1: no 0/1 solution.
ILPHalf ==
    ILPInstance(<<X(0, 0, 1)>>,
                <<Row(0, <<<<1, 0>>>>, 1), Row(1, <<<<2, 0>>>>, 1)>>, <<<<1, 0>>>>)

SmallILPs == {ILPOne, ILPCover, ILPHalf}

\* ILP::new and the first lines of ILP::solve.
InitILP ==
    /\ pc = "ilp_solve"
    /\ err = ""
    /\ facts = RootOnly
    /\ vx_iter = <<root>>
    /\ vert = NoGraph
    /\ condensed = NoGraph
    /\ paths_by_rank = EmptyMap
    /\ placement = NoPlacement
    /\ ilp \in SmallILPs
    /\ queue = <<ILPInstance(ilp.vars, ilp.csp, ilp.obj)>>
    /\ instance = NoInstance
    /\ relaxation = NoRelaxation
    /\ inst_status = NoStatus
    /\ global_bound = INFINITY
    /\ global_xs = << >>
    /\ status = NoStatus
    /\ crossing_number = 0
    /\ solved_locs = EmptyMap
    /\ perm = << >>
    /\ minion_locs = EmptyMap
    /\ layout_problem = NoLayoutProblem
    /\ qp = NoQP
    /\ csc = NoCsc

NextILP ==
    \/ PopAndSolveAccepted
    \/ MatchNotIntegral
    \/ MatchContinue
    \/ MatchSolved
    \/ SolveReturn

SpecILP == InitILP /\ [][NextILP]_vars

\* The loop of ILP::solve runs on its own thread of control and is never
\* held up: a step that can be taken is taken.
SpecILPFair == SpecILP /\ WF_vars(NextILP)

----------------------------------------------------------------------------
\* The two recoveries of the SolvedLocs, of minion::minimize_edge_crossing
\* and of miosqp::minimize_edge_crossing, on the same x matrices.

\* One rank's x: x[a][b] for a, b in 0..n-1.
Matrices(n) == [0..(n - 1) -> [0..(n - 1) -> {0, 1}]]

\* The constraints both back-ends put on a rank: x[a,a] = 0,
\* x[a,b] + x[b,a] = 1 and x[c,b] + x[b,a] - 1 <= x[c,a].
is_total_order(x, n) ==
    \A a \in 0..(n - 1) :
        /\ x[a][a] = 0
        /\ \A b \in 0..(n - 1) \ {a} :
            /\ x[a][b] + x[b][a] = 1
            /\ \A c \in 0..(n - 1) \ {a, b} : x[c][b] + x[b][a] - 1 <= x[c][a]

TotalOrders(n) == {x \in Matrices(n) : is_total_order(x, n)}

\* perm: a total order for each of the ranks 0..k-1.
XMatrices ==
    UNION {[0..(k - 1) -> UNION {TotalOrders(n) : n \in 1..MaxShrWidth}] :
            k \in 1..MaxShrRanks}

\* r.sum()
RECURSIVE row_sum(_, _)
row_sum(r, n) == IF n = 0 THEN 0 ELSE r[n - 1] + row_sum(r, n - 1)

\* sums.sort_by_key(|(_i, s)| *s) and the enumeration of the sorted rows: the
\* sort is stable, so row i comes after the rows of a smaller sum and after
\* the earlier rows of the same sum.
sorted_position(p, i) ==
    LET n == Cardinality(DOMAIN p)
    IN Cardinality({j \in DOMAIN p :
            \/ row_sum(p[j], n) < row_sum(p[i], n)
            \/ row_sum(p[j], n) = row_sum(p[i], n) /\ j < i})

\* The solved_locs of the minion back-end.
minion_solved_locs(pm) ==
    [n \in DOMAIN pm |-> [i \in DOMAIN pm[n] |-> sorted_position(pm[n], i)]]

\* The solutions map of the miosqp back-end for the same x: the variables
\* X(l, a, b) with a # b.
perm_solutions(pm) ==
    [sol \in UNION {{X(l, a, b) : a, b \in DOMAIN pm[l]} \ {X(l, a, a) : a \in DOMAIN pm[l]} :
                    l \in DOMAIN pm} |->
        pm[sol[2]][sol[3]][sol[4]]]

MinionRecoverLocs ==
    /\ pc = "minion_recover_locs"
    /\ minion_locs' = minion_solved_locs(perm)
    /\ pc' = "miosqp_recover_locs"
    /\ UNCHANGED <<err, facts, vx_iter, vert, condensed, paths_by_rank, placement>>
    /\ UNCHANGED <<vars_ilp, crossing_number, solved_locs, perm, layout_problem, vars_geometry>>

MiosqpRecoverLocs ==
    /\ pc = "miosqp_recover_locs"
    /\ solved_locs' = sorted_locs(perm_solutions(perm),
                                  [l \in DOMAIN perm |-> Cardinality(DOMAIN perm[l])])
    /\ pc' = "recovered"
    /\ UNCHANGED <<err, facts, vx_iter, vert, condensed, paths_by_rank, placement>>
    /\ UNCHANGED <<vars_ilp, crossing_number, perm, minion_locs, layout_problem, vars_geometry>>

InitShr ==
    /\ pc = "minion_recover_locs"
    /\ err = ""
    /\ facts = RootOnly
    /\ vx_iter = <<root>>
    /\ vert = NoGraph
    /\ condensed = NoGraph
    /\ paths_by_rank = EmptyMap
    /\ placement = NoPlacement
    /\ ilp = NoILP
    /\ queue = << >>
    /\ instance = NoInstance
    /\ relaxation = NoRelaxation
    /\ inst_status = NoStatus
    /\ global_bound = INFINITY
    /\ global_xs = << >>
    /\ status = NoStatus
    /\ crossing_number = 0
    /\ solved_locs = EmptyMap
    /\ perm \in XMatrices
    /\ minion_locs = EmptyMap
    /\ layout_problem = NoLayoutProblem
    /\ qp = NoQP
    /\ csc = NoCsc

NextShr == MinionRecoverLocs \/ MiosqpRecoverLocs

SpecShr == InitShr /\ [][NextShr]_vars

----------------------------------------------------------------------------
\* osqp::as_csc_matrix on its own: rows are lists of monomials <<coeff, index>>,
\* an Option is << >> for None and <<n>> for Some(n).

\* cols: the indices of the variables with a coefficient that is not 0.
csc_cols(rows) ==
    {rows[i][t][2] : <<i, t>> \in {p \in (DOMAIN rows) \X (1..MaxCscTerms) :
                                      p[2] \in DOMAIN rows[p[1]] /\ rows[p[1]][p[2]][1] # 0}}

\* assert!(old.is_none()): a row that names a variable twice, both times with
\* a coefficient that is not 0.
csc_panics(rows) ==
    \E i \in DOMAIN rows : \E t, u \in DOMAIN rows[i] :
        t # u /\ rows[i][t][2] = rows[i][u][2] /\ rows[i][t][1] # 0 /\ rows[i][u][1] # 0

\* for (col, rows) in cols.iter(): one entry of indptr for every index of
\* cur_col..=col, then the column's row indices and coefficients.
RECURSIVE csc_columns(_, _, _)
csc_columns(cs, rows, m) ==
    IF cs = << >> THEN m
    ELSE LET col == Head(cs)
             rs  == SortedNats({i \in DOMAIN rows : \E t \in DOMAIN rows[i] :
                                    rows[i][t][2] = col /\ rows[i][t][1] # 0})
             coeff(i) == rows[i][CHOOSE t \in DOMAIN rows[i] :
                                    rows[i][t][2] = col /\ rows[i][t][1] # 0][1]
         IN csc_columns(Tail(cs), rows,
                [indptr  |-> m.indptr \o [k \in 1..(col - m.cur_col + 1) |-> Len(m.data)],
                 indices |-> m.indices \o [k \in DOMAIN rs |-> rs[k] - 1],
                 data    |-> m.data \o [k \in DOMAIN rs |-> coeff(rs[k])],
                 cur_col |-> col + 1])

\* nrows.unwrap_or(rows.len()) and ncols.unwrap_or(cols.len()), then the last
\* entries of indptr, one for every index of cur_col..=ncols.
as_csc_matrix(nrows, ncols, rows) ==
    LET cols == csc_cols(rows)
        m    == csc_columns(SortedNats(cols), rows,
                            [indptr |-> << >>, indices |-> << >>, data |-> << >>,
                             cur_col |-> 0])
        nr   == IF nrows = << >> THEN Len(rows) ELSE nrows[1]
        nc   == IF ncols = << >> THEN Cardinality(cols) ELSE ncols[1]
    IN CscMatrix(nr, nc,
                 m.indptr \o [k \in 1..(nc - m.cur_col + 1) |-> Len(m.data)],
                 m.indices, m.data)

\* impl From<Constraints<S>> for CscMatrix: as_csc_matrix(None, None, a).
FromConstraints ==
    /\ pc = "as_csc_matrix"
    /\ csc.ncols = << >>
    /\ IF csc_panics(csc.rows)
       THEN /\ pc' = "error"
            /\ err' = "assertion failed: old.is_none()"
            /\ csc' = csc
       ELSE /\ pc' = "csc"
            /\ err' = err
            /\ csc' = [csc EXCEPT !.matrix = as_csc_matrix(<< >>, << >>, csc.rows)]
    /\ UNCHANGED <<facts, vx_iter, vert, condensed, paths_by_rank, placement, qp>>
    /\ UNCHANGED <<vars_ilp, crossing_number, solved_locs, perm, minion_locs, layout_problem>>

\* as_csc_matrix with the number of columns given.
AsCscMatrix ==
    /\ pc = "as_csc_matrix"
    /\ csc.ncols # << >>
    /\ IF csc_panics(csc.rows)
       THEN /\ pc' = "error"
            /\ err' = "assertion failed: old.is_none()"
            /\ csc' = csc
       ELSE /\ pc' = "csc"
            /\ err' = err
            /\ csc' = [csc EXCEPT !.matrix = as_csc_matrix(<< >>, csc.ncols, csc.rows)]
    /\ UNCHANGED <<facts, vx_iter, vert, condensed, paths_by_rank, placement, qp>>
    /\ UNCHANGED <<vars_ilp, crossing_number, solved_locs, perm, minion_locs, layout_problem>>

\* The rows tried: every list of monomials with a coefficient of 0 or 1.
CscRows ==
    UNION {[1..n -> {0, 1} \X (0..MaxCscIndex)] : n \in 0..MaxCscTerms}

InitCsc ==
    /\ pc = "as_csc_matrix"
    /\ err = ""
    /\ facts = RootOnly
    /\ vx_iter = <<root>>
    /\ vert = NoGraph
    /\ condensed = NoGraph
    /\ paths_by_rank = EmptyMap
    /\ placement = NoPlacement
    /\ ilp = NoILP
    /\ queue = << >>
    /\ instance = NoInstance
    /\ relaxation = NoRelaxation
    /\ inst_status = NoStatus
    /\ global_bound = INFINITY
    /\ global_xs = << >>
    /\ status = NoStatus
    /\ crossing_number = 0
    /\ solved_locs = EmptyMap
    /\ perm = << >>
    /\ minion_locs = EmptyMap
    /\ layout_problem = NoLayoutProblem
    /\ qp = NoQP
    /\ \E rows \in UNION {[1..n -> CscRows] : n \in 0..MaxCscRows},
          ncols \in {<< >>, <<MaxCscIndex + 1>>} :
            csc = [NoCsc EXCEPT !.rows = rows, !.ncols = ncols]

NextCsc == FromConstraints \/ AsCscMatrix

SpecCsc == InitCsc /\ [][NextCsc]_vars

----------------------------------------------------------------------------
\* Properties of the Placement.

\* calculate_locs_and_hops has returned.
Placed ==
    pc \notin {"calculate_vcg", "condense", "rank", "calculate_locs_and_hops", "error"}

RankOf(v) == placement.node_to_loc[Node(v)][1]
OhrOf(v)  == placement.node_to_loc[Node(v)][2]
HopsOf(e) == GetOr(placement.hops_by_edge, e, EmptyMap)

\* C7: for every edge (v, w) of the condensed graph, the ranks of
\* hops_by_edge[(v, w)] are consecutive integers and the lower endpoint of the
\* hop at rank r is the upper endpoint of the hop at rank r + 1.
C7_HopsChain ==
    Placed =>
        \A e \in condensed.edges :
            e \in DOMAIN placement.hops_by_edge =>
                LET h == placement.hops_by_edge[e]
                IN /\ DOMAIN h # {}
                   /\ DOMAIN h = Min(DOMAIN h)..Max(DOMAIN h)
                   /\ \A r \in DOMAIN h : (r + 1) \in DOMAIN h => h[r][2] = h[r + 1][1]

\* An edge with three hops whose horizontal ranks change along the chain.
C7_Witness ==
    /\ Placed
    /\ \E e \in condensed.edges :
        /\ Cardinality(DOMAIN HopsOf(e)) >= 3
        /\ \E r \in DOMAIN HopsOf(e) : HopsOf(e)[r][1] # HopsOf(e)[r][2]

\* C8: for every hop (m, n) recorded at rank r in hops_by_level, both (r, m)
\* and (r + 1, n) are keys of loc_to_node.
C8_HopEndpointsAreLocs ==
    Placed =>
        \A r \in DOMAIN placement.hops_by_level :
            \A i \in DOMAIN placement.hops_by_level[r] :
                LET h == placement.hops_by_level[r][i]
                IN /\ h.lvl = r
                   /\ <<r, h.mhr>> \in DOMAIN placement.loc_to_node
                   /\ <<r + 1, h.nhr>> \in DOMAIN placement.loc_to_node

\* A hop whose lower endpoint is an intermediate Loc::Hop.
C8_Witness ==
    /\ Placed
    /\ \E r \in DOMAIN placement.hops_by_level :
        \E i \in DOMAIN placement.hops_by_level[r] :
            LET k == <<r + 1, placement.hops_by_level[r][i].nhr>>
            IN k \in DOMAIN placement.loc_to_node
               /\ placement.loc_to_node[k].kind = "Hop"

\* The ranks at which an intermediate Loc::Hop of the edge e is registered,
\* counted with multiplicity through the keys of loc_to_node.
HopLocKeys(e, r) ==
    {k \in DOMAIN placement.loc_to_node :
        k[1] = r /\ placement.loc_to_node[k] = HopLoc(r, e[1], e[2])}

\* C9: an edge from rank vr to rank wr has exactly wr - vr hops, at the ranks
\* vr..wr-1; the first starts at v's loc, the last ends at w's loc, and there
\* is exactly one Loc::Hop at each rank strictly between vr and wr.
C9_HopCount ==
    Placed =>
        \A e \in condensed.edges :
            LET vr == RankOf(e[1])
                wr == RankOf(e[2])
                h  == HopsOf(e)
            IN /\ DOMAIN h = vr..(wr - 1)
               /\ Cardinality(DOMAIN h) = IF wr > vr THEN wr - vr ELSE 0
               /\ wr > vr => h[vr][1] = OhrOf(e[1]) /\ h[wr - 1][2] = OhrOf(e[2])
               /\ \A r \in DOMAIN placement.locs_by_level :
                    Cardinality(HopLocKeys(e, r)) =
                        IF vr < r /\ r < wr THEN 1 ELSE 0

\* An edge that spans at least two ranks.
C9_Witness ==
    /\ Placed
    /\ \E e \in condensed.edges :
        /\ RankOf(e[2]) - RankOf(e[1]) >= 2
        /\ Cardinality(DOMAIN HopsOf(e)) >= 2

\* C10: loc_to_node and node_to_loc are inverse bijections.
C10_LocMapsInverse ==
    Placed =>
        /\ \A k \in DOMAIN placement.loc_to_node :
            /\ placement.loc_to_node[k] \in DOMAIN placement.node_to_loc
            /\ placement.node_to_loc[placement.loc_to_node[k]] = k
        /\ \A x \in DOMAIN placement.node_to_loc :
            /\ placement.node_to_loc[x] \in DOMAIN placement.loc_to_node
            /\ placement.loc_to_node[placement.node_to_loc[x]] = x

\* A rank that holds a node beside an intermediate Loc::Hop.
C10_Witness ==
    /\ Placed
    /\ \E k1, k2 \in DOMAIN placement.loc_to_node :
        /\ k1[1] = k2[1]
        /\ placement.loc_to_node[k1].kind = "Node"
        /\ placement.loc_to_node[k2].kind = "Hop"

----------------------------------------------------------------------------
\* Properties of the crossing minimiser.

\* minimize_edge_crossing has returned Ok.
Done == pc = "done"

\* The SHR of the loc (lvl, ohr) in the returned map.
Shr(lvl, ohr) == solved_locs[lvl][ohr]
ShrOf(v) == Shr(RankOf(v), OhrOf(v))

\* Two hops of one rank cross: the first starts left of the second and ends
\* right of it.
Crosses(g, h) ==
    /\ Shr(g.lvl, g.mhr) < Shr(h.lvl, h.mhr)
    /\ Shr(g.lvl + 1, g.nhr) > Shr(h.lvl + 1, h.nhr)

\* The crossings under the returned SHRs, each crossing pair counted once.
Crossings ==
    Cardinality(UNION {
        {<<l, i, j>> : i, j \in DOMAIN placement.hops_by_level[l]} :
            l \in DOMAIN placement.hops_by_level} \cap
        {t \in UNION {{<<l, i, j>> : i, j \in DOMAIN placement.hops_by_level[l]} :
                        l \in DOMAIN placement.hops_by_level} :
            Crosses(placement.hops_by_level[t[1]][t[2]],
                    placement.hops_by_level[t[1]][t[3]])})

IsPermutation(m, n) == DOMAIN m = 0..(n - 1) /\ {m[k] : k \in DOMAIN m} = 0..(n - 1)

\* C1: whenever minimize_edge_crossing succeeds, for every rank r of
\* locs_by_level the returned SolvedLocs has an entry for r whose keys are
\* the OHRs of the rank and whose SHRs are a permutation of 0..N-1, the fast
\* paths and the graph with only the root included.
C1_SolvedLocsPermutation ==
    Done =>
        \A r \in DOMAIN placement.locs_by_level :
            /\ r \in DOMAIN solved_locs
            /\ DOMAIN solved_locs[r] = Range(placement.locs_by_level[r])
            /\ IsPermutation(solved_locs[r], Len(placement.locs_by_level[r]))

\* C2: the crossing number returned equals the number of crossings under the
\* returned SHR permutation.
C2_CrossingNumberIsCrossings == Done => crossing_number = Crossings

\* The 0/1 vectors that satisfy every row of the program, and the least
\* objective among them.
binary_points(I) ==
    extend(Len(I.vars), rows_ending_at(Len(I.vars), I.csp),
           [k \in 1..Len(I.vars) |-> FALSE], {0, Scale}, 1, {<< >>})

ilp_minimum(I) == Min({dot(I.obj, p) \div Scale : p \in binary_points(I)})

SolvedByILP == Done /\ ilp.vars # << >>

\* Every edge below the root joins two locs of equal SHR.
ChainsAligned ==
    \A e \in condensed.edges : e[1] # root => ShrOf(e[1]) = ShrOf(e[2])

IsolatedNodes == facts.nodes # {} /\ facts.edges = {}

\* C6 as the specification states it: for a graph of isolated nodes
\* minimize_edge_crossing returns crossing number 0 and the identity on every
\* rank.
C6_IsolatedIdentity ==
    (Done /\ IsolatedNodes) =>
        /\ crossing_number = 0
        /\ solved_locs = identity_locs(placement.locs_by_level)

\* C6, amended: for a graph of isolated nodes minimize_edge_crossing returns
\* crossing number 0 and, on every rank, a permutation of the rank's OHRs;
\* the permutation is the identity when there is one node only.
C6_IsolatedPermutation ==
    (Done /\ IsolatedNodes) =>
        /\ crossing_number = 0
        /\ DOMAIN solved_locs = DOMAIN placement.locs_by_level
        /\ \A r \in DOMAIN placement.locs_by_level :
            IsPermutation(solved_locs[r], Len(placement.locs_by_level[r]))
        /\ Cardinality(facts.nodes) = 1 =>
            solved_locs = identity_locs(placement.locs_by_level)

\* Two isolated nodes returned in swapped order.
C6_Witness ==
    /\ Done
    /\ facts = Isolated2
    /\ Shr(1, 0) = 1
    /\ Shr(1, 1) = 0

----------------------------------------------------------------------------
\* Ranking.

Successors(g, v)   == {e[2] : e \in {f \in g.edges : f[1] = v}}
Predecessors(g, w) == {e[1] : e \in {f \in g.edges : f[2] = w}}

\* The vertices reached from the set S by at most n further edges.
RECURSIVE ReachFrom(_, _, _)
ReachFrom(g, S, n) ==
    IF n = 0 THEN S
    ELSE ReachFrom(g, S \cup UNION {Successors(g, v) : v \in S}, n - 1)

\* No vertex is reached from itself by one or more edges.
Acyclic(g) ==
    \A v \in g.nodes : v \notin ReachFrom(g, Successors(g, v), Cardinality(g.nodes))

\* The number of edges of a longest path that ends at w, in an acyclic graph.
RECURSIVE LongestPath(_, _)
LongestPath(g, w) ==
    IF Predecessors(g, w) = {} THEN 0
    ELSE 1 + Max({LongestPath(g, v) : v \in Predecessors(g, w)})

\* rank has returned Ok(paths_by_rank).
Ranked == pc \notin {"calculate_vcg", "condense", "rank"} /\ err # "NegativeCycleError"

\* rank has returned the NegativeCycleError.
RankFailed == pc = "error" /\ err = "NegativeCycleError"

\* C11: for an acyclic condensed graph, rank has the pair (root, w) at the
\* rank equal to the number of edges of a longest path from root to w and at
\* no other rank, for every vertex w; root is at rank 0; vx_rank gives every
\* vertex that rank, and the rank of w exceeds the rank of v for every
\* condensed edge (v, w).
C11_RankIsLongestPath ==
    (Ranked /\ Acyclic(condensed)) =>
        /\ \A w \in condensed.nodes :
            \A r \in 0..Cardinality(condensed.nodes) :
                (r \in DOMAIN paths_by_rank /\ <<root, w>> \in Range(paths_by_rank[r]))
                    <=> r = LongestPath(condensed, w)
        /\ <<root, root>> \in Range(paths_by_rank[0])
        /\ vx_rank(paths_by_rank) = [w \in condensed.nodes |-> LongestPath(condensed, w)]
        /\ \A e \in condensed.edges :
            vx_rank(paths_by_rank)[e[2]] > vx_rank(paths_by_rank)[e[1]]

\* An acyclic graph ranked, with an edge that spans more than one rank: its
\* target is reached by paths of different lengths.
C11_Witness ==
    /\ Ranked
    /\ Acyclic(condensed)
    /\ \E e \in condensed.edges :
        vx_rank(paths_by_rank)[e[2]] > vx_rank(paths_by_rank)[e[1]] + 1

\* C12: rank returns the NegativeCycleError, and no ranked paths, whenever the
\* graph has a directed cycle, a self-loop included, and returns no such error
\* when the graph is acyclic.
C12_CycleIsNegativeCycleError ==
    pc \notin {"calculate_vcg", "condense", "rank"} =>
        /\ RankFailed <=> ~Acyclic(condensed)
        /\ RankFailed => paths_by_rank = EmptyMap

----------------------------------------------------------------------------
\* calculate_vcg and condense on labelled facts.

KindSeqs == UNION {[1..n -> Kinds] : n \in 0..MaxKinds}

\* Every list of facts over the names, "root" among them, with at most
\* MaxVcgEdges adjacent pairs and at most MaxKinds labels on a pair.
VcgFacts ==
    UNION {UNION {{LabelledFacts(V, E, K) : K \in [E -> KindSeqs]} :
                  E \in {F \in SUBSET (V \X V) : Cardinality(F) <= MaxVcgEdges}} :
           V \in SUBSET ({root} \cup Names)}

InitVcg ==
    /\ InitLayout
    /\ facts \in VcgFacts
    /\ vx_iter = <<root>>

NextVcg == CalculateVcg \/ Condense

SpecVcg == InitVcg /\ [][NextVcg]_vars

\* The number of entries of an edge list that satisfy a test.
Count(el, Test(_)) == Cardinality({i \in DOMAIN el : Test(el[i])})

VcgBuilt == pc \notin {"calculate_vcg", "error"}
Condensed == pc \notin {"calculate_vcg", "condense", "error"}

\* C13: after calculate_vcg, "root" has a "fake" edge to exactly the vertices
\* that had no incoming edge before root was added, and "root" is the only
\* vertex of the graph with no incoming edge.
C13_RootIsOnlyRoot ==
    VcgBuilt =>
        /\ \A w \in vert.nodes :
            Count(vert.edge_list, LAMBDA t : t = <<root, w, "fake">>)
                = IF w \in roots([nodes |-> facts.nodes, edges |-> facts.edges])
                  THEN 1 ELSE 0
        /\ roots(vert) = {root}

\* C14: condense keeps the vertices of the VCG and has exactly one edge (v, w)
\* for every ordered pair with a VCG edge v -> w and none for the other pairs;
\* the weight of that edge is the sorted list of the (src, dst, kind) triples
\* of the VCG edges v -> w, with multiplicity.
C14_CondenseGroupsParallelEdges ==
    Condensed =>
        /\ condensed.nodes = vert.nodes
        /\ \A v, w \in vert.nodes :
            Count(condensed.edge_list, LAMBDA c : c[1] = v /\ c[2] = w)
                = IF Count(vert.edge_list, LAMBDA t : t[1] = v /\ t[2] = w) > 0
                  THEN 1 ELSE 0
        /\ \A i \in DOMAIN condensed.edge_list :
            LET c  == condensed.edge_list[i]
                exs == c[3]
            IN /\ \A j, k \in DOMAIN exs : j < k => ~TripleLess(exs[k], exs[j])
               /\ \A k \in Kinds \cup {"fake"} :
                    Count(exs, LAMBDA t : t = <<c[1], c[2], k>>)
                        = Count(vert.edge_list, LAMBDA t : t = <<c[1], c[2], k>>)
               /\ Len(exs) = Count(vert.edge_list, LAMBDA t : t[1] = c[1] /\ t[2] = c[2])

\* A condensed edge that collapses two parallel edges of different kinds,
\* entered in descending order, next to another condensed edge.
C14_Witness ==
    /\ Condensed
    /\ Len(condensed.edge_list) > 2
    /\ \E e \in facts.edges : facts.kinds[e] = <<"senses", "actuates">>
    /\ \E i \in DOMAIN condensed.edge_list :
        /\ Len(condensed.edge_list[i][3]) = 2
        /\ condensed.edge_list[i][3][1][3] = "actuates"
        /\ condensed.edge_list[i][3][2][3] = "senses"

----------------------------------------------------------------------------
\* ILP::solve.

Returned == pc \in {"solved", "error"}

\* C15: the loop of ILP::solve ends exactly when the queue is empty or the
\* global best is 0, and along every execution, whatever instance is popped
\* and whatever answer solve_relaxation hands on, one of the two is reached
\* and ILP::solve returns.
C15_SolveTerminates ==
    /\ [](Returned => loop_done(queue, global_bound, global_xs))
    /\ [][(pc = "ilp_solve" /\ loop_done(queue, global_bound, global_xs))
            => Returned']_vars
    /\ <>Returned

\* C16: an error from solving one instance neither ends the search nor
\* reaches the caller; ILP::solve returns an error only when the loop ends
\* with no instance ever having reported Solved, that error is "infeasible",
\* and otherwise it returns Solved.  (global_xs is Some exactly from the first
\* Solved on.)
C16_ErrorsAreSwallowed ==
    /\ [][(pc = "match_status" /\ inst_status.kind = "Err")
            => /\ pc' = "ilp_solve"
               /\ err' = err
               /\ status' = status
               /\ queue' = queue
               /\ global_bound' = global_bound
               /\ global_xs' = global_xs]_vars
    /\ [][(pc = "match_status" /\ inst_status.kind = "Solved") => global_xs' # << >>]_vars
    /\ [][global_xs # << >> => global_xs' # << >>]_vars
    /\ [][(global_xs = << >> /\ global_xs' # << >>)
            => (pc = "match_status" /\ inst_status.kind = "Solved")]_vars
    /\ [](pc = "error" =>
            /\ err = "infeasible"
            /\ status.kind = "Err"
            /\ global_xs = << >>
            /\ loop_done(queue, global_bound, global_xs))
    /\ [](pc = "solved" => (status.kind = "Solved" /\ global_xs # << >>))

\* An instance fails after another has been solved, and the search goes on.
C16_Witness ==
    /\ pc = "match_status"
    /\ inst_status.kind = "Err"
    /\ global_xs # << >>
    /\ queue # << >>

\* The row l <= v <= u on the variable of index v alone.
BoundRow(l, v, u) == [lo |-> l, terms |-> <<<<1, v>>>>, hi |-> u]

\* The csp has room for another copy of the row.
Fresh(csp, row) == Cardinality({i \in DOMAIN csp : csp[i] = row}) < MaxRepeat

Nearest(v) == IF 2 * v >= Scale THEN Scale ELSE 0
Distance(v) == IF Nearest(v) >= v THEN Nearest(v) - v ELSE v - Nearest(v)

\* The sum of a row, or of the objective, on the rounded vector.
RoundedSum(terms, xs) ==
    LET T == DOMAIN terms
        f[S \in SUBSET T] ==
            IF S = {} THEN 0
            ELSE LET i == CHOOSE j \in S : TRUE
                 IN terms[i][1] * Nearest(xs[terms[i][2] + 1]) + f[S \ {i}]
    IN f[T]

\* The sum of the row on the rounded vector is outside [L - 0.1, U + 0.1].
Outside(r, xs) ==
    \/ 10 * RoundedSum(r.terms, xs) < 10 * r.lo * Scale - Scale
    \/ 10 * RoundedSum(r.terms, xs) > 10 * r.hi * Scale + Scale

\* ILPInstance::solve has reported the first outcome that applies, where
\* Far(v) says that the value v is too far from its nearest integer.
FirstApplicable(Far(_)) ==
    LET xs == relaxation.xs
        far == {i \in DOMAIN xs : Far(xs[i])}
        out == {i \in DOMAIN instance.csp : Outside(instance.csp[i], xs)}
    IN IF relaxation.bound >= global_bound * Scale
       THEN inst_status.kind = "NotAsGood"
       ELSE IF far # {}
       THEN inst_status.kind = "NotIntegral" /\ (inst_status.arg + 1) \in far
       ELSE IF out # {}
       THEN inst_status.kind = "IntegerInfeasible" /\ (inst_status.arg + 1) \in out
       ELSE /\ inst_status.kind = "Solved"
            /\ inst_status.xs = xs
            /\ inst_status.bound * Scale = RoundedSum(instance.obj, xs)

Answered == pc = "match_status" /\ relaxation.kind = "Ok"

\* C20 as the specification states it: ILPInstance::solve reports the first
\* outcome that applies of NotAsGood (relaxation objective >= the given
\* best), NotIntegral(var) for a variable whose value differs from the nearest
\* integer by more than 0.1, IntegerInfeasible(row) for a row whose sum on the
\* rounded x is outside [L - 0.1, U + 0.1], and Solved with the objective
\* recomputed on the rounded x; Solved is reported only for an x whose
\* rounding satisfies every row.
C20_FirstApplicableOutcome ==
    Answered =>
        /\ FirstApplicable(LAMBDA v : 10 * Distance(v) > Scale)
        /\ inst_status.kind = "Solved" =>
            \A i \in DOMAIN instance.csp : ~Outside(instance.csp[i], relaxation.xs)

\* C20, amended: the same, with NotIntegral(var) for a variable whose value
\* differs from the nearest integer by 0.1 or more.
C20_FirstApplicableOutcomeAtLeast ==
    Answered =>
        /\ FirstApplicable(LAMBDA v : 10 * Distance(v) >= Scale)
        /\ inst_status.kind = "Solved" =>
            \A i \in DOMAIN instance.csp : ~Outside(instance.csp[i], relaxation.xs)

\* The relaxation answers 0.1 for a variable, below the given best, and the
\* instance reports that variable as NotIntegral.
C20_Witness ==
    /\ Answered
    /\ inst_status.kind = "NotIntegral"
    /\ relaxation.xs[inst_status.arg + 1] = 1
    /\ global_bound < INFINITY

\* C17: given the same integral x matrices (a strict total order on every
\* rank), the recovery of the minion back-end (ascending row sum of x) and
\* the recovery of the miosqp back-end (sort by the x comparator) produce the
\* same OHR -> SHR map at every rank.
C17_BackEndsAgree == pc = "recovered" => solved_locs = minion_locs

\* calculate_sols has returned.
LaidOut == pc = "laid_out"

\* The (rank, OHR) entries of solved_locs.
SolvedKeys == UNION {{<<ovr, ohr>> : ohr \in DOMAIN solved_locs[ovr]} : ovr \in DOMAIN solved_locs}

\* C18: calculate_sols yields exactly one LocRow for each (rank, OHR) entry of
\* solved_locs, with loc = loc_to_node[(rank, OHR)], shr =
\* solved_locs[rank][OHR] and ovr/ohr equal to node_to_loc of that loc; the
\* LocSol ids are the dense integers 0..|locs|-1 in ascending (rank, OHR)
\* order, and sol_by_loc maps each (rank, OHR) to the id of its own row.
C18_OneLocRowPerSolvedLoc ==
    LaidOut =>
        LET rows == layout_problem.all_locs
        IN /\ Len(rows) = Cardinality(SolvedKeys)
           /\ \A k \in SolvedKeys :
                Cardinality({i \in DOMAIN rows : <<rows[i].ovr, rows[i].ohr>> = k}) = 1
           /\ \A i \in DOMAIN rows :
                /\ rows[i].loc = placement.loc_to_node[<<rows[i].ovr, rows[i].ohr>>]
                /\ rows[i].shr = solved_locs[rows[i].ovr][rows[i].ohr]
                /\ placement.node_to_loc[rows[i].loc] = <<rows[i].ovr, rows[i].ohr>>
                /\ rows[i].n = i - 1
                /\ \A j \in DOMAIN rows :
                    i < j => PairLess(<<rows[i].ovr, rows[i].ohr>>, <<rows[j].ovr, rows[j].ohr>>)
           /\ DOMAIN layout_problem.sol_by_loc = SolvedKeys
           /\ \A i \in DOMAIN rows :
                layout_problem.sol_by_loc[<<rows[i].ovr, rows[i].ohr>>] = rows[i].n

\* calculate_sols has laid out a solution that moves a loc and has a hop loc.
C18_Witness ==
    /\ LaidOut
    /\ Len(layout_problem.all_locs) >= 4
    /\ \E i \in DOMAIN layout_problem.all_locs :
        layout_problem.all_locs[i].shr # layout_problem.all_locs[i].ohr
    /\ \E i \in DOMAIN layout_problem.all_locs :
        layout_problem.all_locs[i].loc.kind = "Hop"

\* C21: minimize_edge_crossing returns (0, empty map) without building an ILP
\* when hops_by_level is empty, returns (0, the identity on every rank of
\* locs_by_level) without building an ILP when every rank of hops_by_level
\* holds at most one hop, and in every other case builds and solves the ILP.
C21_FastPaths ==
    [][pc = "minimize_edge_crossing" =>
        LET hbl == placement.hops_by_level
            lbl == placement.locs_by_level
        IN IF DOMAIN hbl = {}
           THEN /\ pc' = "done"
                /\ crossing_number' = 0
                /\ solved_locs' = EmptyMap
                /\ ilp' = NoILP
           ELSE IF \A lvl \in DOMAIN hbl : Len(hbl[lvl]) <= 1
           THEN /\ pc' = "done"
                /\ crossing_number' = 0
                /\ DOMAIN solved_locs' = DOMAIN lbl
                /\ \A lvl \in DOMAIN lbl :
                    solved_locs'[lvl] = [n \in 0..(Len(lbl[lvl]) - 1) |-> n]
                /\ ilp' = NoILP
           ELSE /\ pc' = "ilp_solve"
                /\ ilp'.vars # << >>
                /\ queue' = <<ILPInstance(ilp'.vars, ilp'.csp, ilp'.obj)>>]_vars

\* The second fast path has answered for a chain with a hop on two ranks.
C21_Witness ==
    /\ pc = "done"
    /\ ilp = NoILP
    /\ Cardinality(DOMAIN placement.hops_by_level) >= 2
    /\ Cardinality(DOMAIN solved_locs) >= 3

\* The rounded value of the variable x[l,a,b] in the solution returned.
XValue(l, a, b) == solutions(ilp, status.xs)[X(l, a, b)]

\* C22: in the SolvedLocs that minimize_edge_crossing returns from an integral
\* ILP solution, the SHR of OHR a at rank l is the number of b with
\* x[l,a,b] = 1, its row sum in the x matrix.
C22_ShrIsRowSum ==
    SolvedByILP =>
        \A l \in DOMAIN solved_locs : \A a \in DOMAIN solved_locs[l] :
            Shr(l, a) = Cardinality({b \in DOMAIN solved_locs[l] \ {a} : XValue(l, a, b) = 1})

\* The indices (from 1) of the variables x[l,_,_] of the program.
XVars(l) == {i \in DOMAIN ilp.vars : ilp.vars[i][1] = "X" /\ ilp.vars[i][2] = l}

\* The rows of the program that speak of the variables x[l,_,_] alone.
XRows(l) ==
    {i \in DOMAIN ilp.csp :
        \A k \in DOMAIN ilp.csp[i].terms : (ilp.csp[i].terms[k][2] + 1) \in XVars(l)}

\* The value of a row's sum under an assignment to the variables.
RowSum(terms, asg) ==
    LET T == DOMAIN terms
        f[S \in SUBSET T] ==
            IF S = {} THEN 0
            ELSE LET i == CHOOSE j \in S : TRUE
                 IN terms[i][1] * asg[terms[i][2] + 1] + f[S \ {i}]
    IN f[T]

\* The 0/1 assignments to x[l,_,_] that satisfy every row of XRows(l).
OrderAssignments(l) ==
    {asg \in [XVars(l) -> {0, 1}] :
        \A i \in XRows(l) :
            /\ ilp.csp[i].lo <= RowSum(ilp.csp[i].terms, asg)
            /\ RowSum(ilp.csp[i].terms, asg) <= ilp.csp[i].hi}

\* The assignment is a strict total order on the OHRs 0..n-1 of rank l.
StrictTotalOrder(l, n, asg) ==
    LET before(a, b) == asg[IndexOf(ilp.vars, X(l, a, b)) + 1] = 1
    IN \A a, b \in 0..(n - 1) :
        a # b =>
            /\ before(a, b) # before(b, a)
            /\ \A c \in 0..(n - 1) \ {a, b} : (before(a, b) /\ before(b, c)) => before(a, c)

\* C23: every 0/1 assignment that satisfies the antisymmetry rows and the
\* transitivity rows of a rank is a strict total order on the rank's OHRs,
\* and in the SolvedLocs returned x[l,a,b] = 1 holds exactly when
\* SHR(a) < SHR(b), that is when a is left of b.
C23_XIsLeftOf ==
    SolvedByILP =>
        /\ \A l \in DOMAIN placement.locs_by_level :
            \A asg \in OrderAssignments(l) :
                StrictTotalOrder(l, Len(placement.locs_by_level[l]), asg)
        /\ \A l \in DOMAIN solved_locs : \A a, b \in DOMAIN solved_locs[l] :
            a # b => (XValue(l, a, b) = 1 <=> Shr(l, a) < Shr(l, b))

\* A solution that moves a loc of a rank of three has been returned.
C23_Witness ==
    /\ SolvedByILP
    /\ \E l \in DOMAIN solved_locs :
        /\ Cardinality(DOMAIN solved_locs[l]) >= 3
        /\ \E a \in DOMAIN solved_locs[l] : Shr(l, a) # a

\* The condensed edges that pass through rank r with an intermediate loc.
EdgesThrough(r) ==
    {e \in condensed.edges :
        /\ Node(e[1]) \in DOMAIN placement.node_to_loc
        /\ Node(e[2]) \in DOMAIN placement.node_to_loc
        /\ RankOf(e[1]) < r
        /\ r < RankOf(e[2])}

\* C24: after calculate_locs_and_hops, at every rank r the OHRs that are keys
\* of loc_to_node are exactly 0..N-1 with N the length of locs_by_level[r];
\* each node has the OHR that is its index in the rank's sorted pair list,
\* and each intermediate hop loc has the OHR that was the length of
\* locs_by_level[r] when it was created, the condensed edges being walked in
\* sorted order: the rank's nodes come first, then the hop locs edge by edge.
C24_OhrsAreDense ==
    Placed =>
        /\ {k[1] : k \in DOMAIN placement.loc_to_node} = DOMAIN placement.locs_by_level
        /\ \A r \in DOMAIN placement.locs_by_level :
            {k[2] : k \in {q \in DOMAIN placement.loc_to_node : q[1] = r}} =
                0..(Len(placement.locs_by_level[r]) - 1)
        /\ \A r \in DOMAIN paths_by_rank : \A i \in DOMAIN paths_by_rank[r] :
            placement.node_to_loc[Node(paths_by_rank[r][i][2])] = <<r, i - 1>>
        /\ \A r \in DOMAIN placement.locs_by_level : \A e \in EdgesThrough(r) :
            placement.node_to_loc[HopLoc(r, e[1], e[2])] =
                <<r, Len(paths_by_rank[r]) +
                     Cardinality({f \in EdgesThrough(r) : PairLess(f, e)})>>

\* A rank holds a node and, behind it, the intermediate locs of two edges.
C24_Witness ==
    /\ Placed
    /\ \E r \in DOMAIN paths_by_rank :
        /\ Len(paths_by_rank[r]) >= 1
        /\ Cardinality(EdgesThrough(r)) >= 2
        /\ Len(placement.locs_by_level[r]) >= 3

----------------------------------------------------------------------------
\* The program position_sols hands to the QP solver.

Positioned == pc = "positioned"

\* The rows of all_locs, one a LocSol.
LocSols == Range(layout_problem.all_locs)

\* c <= -R(a) + L(b), the row leqc(R(a), L(b), c) pushes.
Separation(a, b, c) ==
    Row(c, <<<<-1, AnySol("R", a)>>, <<1, AnySol("L", b)>>>>, INFINITY)

\* C25: the rows handed to the QP solver hold L(b) - R(a) >= sep, sep = 20,
\* for every two locs a, b of one rank with SHR(b) = SHR(a) + 1, and every row
\* that bounds some L(y) - R(x) from below is the row of such a pair.
C25_SeparationRows ==
    Positioned =>
        /\ \A a, b \in LocSols :
                a.ovr = b.ovr /\ b.shr = a.shr + 1 =>
                    Separation(a.n, b.n, 20 * Scale) \in Range(qp.csp)
        /\ \A r \in Range(qp.csp) :
                (\E x, y \in {a.n : a \in LocSols}, c \in {r.lo} : r = Separation(x, y, c)) =>
                    \E a, b \in LocSols :
                        /\ a.ovr = b.ovr /\ b.shr = a.shr + 1
                        /\ r = Separation(a.n, b.n, 20 * Scale)

\* A rank of three locs, solved in another order than the original one, has
\* been positioned.
C25_Witness ==
    /\ Positioned
    /\ \E a, b, c \in LocSols :
            /\ a.ovr = b.ovr /\ b.ovr = c.ovr
            /\ a.shr = 0 /\ b.shr = 1 /\ c.shr = 2
            /\ a.ohr # a.shr

\* The sum of the action and percept widths of the hops of the edges es, the
\* hop of an edge being its first one or its last one.
RECURSIVE HopWidthSum(_, _)
HopWidthSum(es, first) ==
    IF es = {} THEN 0
    ELSE LET e    == CHOOSE x \in es : TRUE
             hops == placement.hops_by_edge[e]
             lvl  == IF first THEN Min(DOMAIN hops) ELSE Max(DOMAIN hops)
             w    == layout_problem.width_by_hop[<<lvl, hops[lvl][1], e[1], e[2]>>]
         IN w[1] + w[2] + HopWidthSum(es \ {e}, first)

\* w(n), in tenths.
NodeWidth(a) ==
    Max({layout_problem.width_by_loc[<<a.ovr, a.ohr>>],
         HopWidthSum({e \in vert.edges : e[1] = a.loc.vl}, TRUE),
         HopWidthSum({e \in vert.edges : e[2] = a.loc.vl}, FALSE)})

\* C26: for each LocSol n of kind Node the rows hold R(n) - L(n) >= w(n), w(n)
\* the largest of width_by_loc[n], the sum of the action and percept widths of
\* the first hops of n's outgoing edges, and the same sum over the last hops
\* of n's incoming edges.
C26_NodeMinWidth ==
    Positioned =>
        \A a \in LocSols :
            a.loc.kind = "Node" =>
                Row(NodeWidth(a), <<<<-1, AnySol("L", a.n)>>, <<1, AnySol("R", a.n)>>>>,
                    INFINITY) \in Range(qp.csp)

\* The rows of all_hops; the first of them are the hops of hops_by_level and
\* the others stand one an edge below the edge's last hop.
HopSols == Range(layout_problem.all_hops)
PerEdgeRow(h) ==
    h.n >= Cardinality(UNION {{<<l, i>> : i \in DOMAIN placement.hops_by_level[l]} :
                                l \in DOMAIN placement.hops_by_level})

\* The rows with both bounds 0: the places in C of the rows sym pushed.
SymRows == {i \in DOMAIN qp.csp : qp.csp[i].lo = 0 /\ qp.csp[i].hi = 0}

\* C27: every hop row that is not a per-edge row has exactly one row
\* 0 <= t - S(hop) + S(nd) <= 0, nd the row of the same edge one rank below at
\* the hop's lower OHR; the t of such a row is a T variable that occurs in no
\* other row, Pd holds exactly one entry an equality row, 100 on its t, and no
\* equality row starts from the S of a per-edge row.
C27_SymPerHop ==
    Positioned =>
        /\ \A h \in HopSols :
                ~PerEdgeRow(h) =>
                    \E i \in SymRows :
                        /\ \A j \in SymRows :
                                qp.csp[j].terms[2] = <<-1, AnySol("S", h.n)>> => j = i
                        /\ \E nd \in HopSols, k \in 0..Len(qp.vars) :
                                /\ nd.vl = h.vl /\ nd.wl = h.wl
                                /\ nd.lvl = h.lvl + 1 /\ nd.mhr = h.nhr
                                /\ qp.csp[i].terms = <<<<1, AnySol("T", k)>>,
                                                       <<-1, AnySol("S", h.n)>>,
                                                       <<1, AnySol("S", nd.n)>>>>
        /\ \A i \in SymRows :
                /\ qp.csp[i].terms[1][2] \in Range(qp.vars)
                /\ \A j \in DOMAIN qp.csp : \A t \in DOMAIN qp.csp[j].terms :
                        qp.csp[j].terms[t][2] = qp.csp[i].terms[1][2] => j = i /\ t = 1
                /\ \E h \in HopSols :
                        ~PerEdgeRow(h) /\ qp.csp[i].terms[2] = <<-1, AnySol("S", h.n)>>
        /\ Len(qp.pd) = Cardinality(SymRows)
        /\ \A i \in SymRows :
                Cardinality({p \in DOMAIN qp.pd : qp.pd[p] = <<100, qp.csp[i].terms[1][2]>>}) = 1

\* An edge of two hops has been positioned: its first hop is tied to its
\* second one, its second one to the per-edge row.
C27_Witness ==
    /\ Positioned
    /\ \E h, g, e \in HopSols :
            /\ h.vl = g.vl /\ h.wl = g.wl /\ g.vl = e.vl /\ g.wl = e.wl
            /\ ~PerEdgeRow(h) /\ ~PerEdgeRow(g) /\ PerEdgeRow(e)
            /\ g.lvl = h.lvl + 1 /\ e.lvl = g.lvl + 1
            /\ Cardinality(SymRows) >= 2

----------------------------------------------------------------------------
\* The CscMatrix of as_csc_matrix.

Built == pc = "csc"

\* The number of coefficients of column j that are not 0, over the rows given.
NonZeros(j) ==
    Cardinality({p \in (DOMAIN csc.rows) \X (1..MaxCscTerms) :
                    /\ p[2] \in DOMAIN csc.rows[p[1]]
                    /\ csc.rows[p[1]][p[2]][2] = j
                    /\ csc.rows[p[1]][p[2]][1] # 0})

\* C28: the matrix built from a list of rows has an indptr of ncols + 1
\* entries that never decrease and end at the number of nonzeros; column j
\* holds indptr[j+1] - indptr[j] entries, the number of nonzero coefficients
\* of variable j in the rows (none for an empty column, below the largest
\* index used or above it, with ncols given or not), and the row indices of a
\* column ascend.
C28_CscIsWellFormed ==
    Built =>
        LET m == csc.matrix
        IN /\ Len(m.indptr) = m.ncols + 1
           /\ \A j \in 1..(Len(m.indptr) - 1) : m.indptr[j] <= m.indptr[j + 1]
           /\ m.indptr[Len(m.indptr)] =
                 Cardinality({p \in (DOMAIN csc.rows) \X (1..MaxCscTerms) :
                                /\ p[2] \in DOMAIN csc.rows[p[1]]
                                /\ csc.rows[p[1]][p[2]][1] # 0})
           /\ \A j \in 0..(m.ncols - 1) :
                 m.indptr[j + 2] - m.indptr[j + 1] = NonZeros(j)
           /\ \A j \in 1..(Len(m.indptr) - 1) :
                 \A k \in (m.indptr[j] + 1)..(m.indptr[j + 1] - 1) :
                    m.indices[k] < m.indices[k + 1]

----------------------------------------------------------------------------
\* The crossing program, as minimize_edge_crossing hands it to ILP::new.

BuiltILP ==
    /\ pc = "ilp_solve"
    /\ global_xs = << >>
    /\ queue = <<ILPInstance(ilp.vars, ilp.csp, ilp.obj)>>

\* The ordered pairs of hops of rank l that differ in both endpoints.
HopPairs(l) ==
    {gh \in Range(placement.hops_by_level[l]) \X Range(placement.hops_by_level[l]) :
        gh[1].mhr # gh[2].mhr /\ gh[1].nhr # gh[2].nhr}

AllHopPairs == UNION {HopPairs(l) : l \in DOMAIN placement.hops_by_level}

CVar(gh) == C(gh[1].lvl, gh[1].mhr, gh[1].nhr, gh[2].mhr, gh[2].nhr)

\* The value, 0 or 1, of a variable of the program in the vector p.
Val(p, v) == p[IndexOf(ilp.vars, v) + 1] \div Scale

\* The hops g and h cross under the orders p gives their two ranks.
CrossesIn(p, gh) ==
    LET g == gh[1]
        h == gh[2]
    IN \/ Val(p, X(g.lvl, g.mhr, h.mhr)) = 1 /\ Val(p, X(g.lvl + 1, h.nhr, g.nhr)) = 1
       \/ Val(p, X(g.lvl, h.mhr, g.mhr)) = 1 /\ Val(p, X(g.lvl + 1, g.nhr, h.nhr)) = 1

\* C29: the crossing variables of the program are c[l,u1,v1,u2,v2] for the
\* ordered pairs of hops of a rank that differ in both endpoints, two for an
\* unordered pair and none for hops that share an endpoint; each is in the
\* objective once with coefficient 1; in every 0/1 vector that satisfies the
\* rows both variables of a crossing pair are 1; so the objective of an
\* optimal vector is twice the number of its crossing unordered pairs.
C29_CrossingsCountedTwice ==
    BuiltILP =>
        /\ {v \in Range(ilp.vars) : v[1] = "C"} = {CVar(gh) : gh \in AllHopPairs}
        /\ Len(ilp.obj) = Cardinality(AllHopPairs)
        /\ \A gh \in AllHopPairs : <<1, IndexOf(ilp.vars, CVar(gh))>> \in Range(ilp.obj)
        /\ \A p \in binary_points(ilp) :
            /\ \A gh \in AllHopPairs :
                    CrossesIn(p, gh) =>
                        Val(p, CVar(gh)) = 1 /\ Val(p, CVar(<<gh[2], gh[1]>>)) = 1
            /\ dot(ilp.obj, p) \div Scale = ilp_minimum(ilp) =>
                    dot(ilp.obj, p) \div Scale =
                        Cardinality({gh \in AllHopPairs : CrossesIn(p, gh)})

\* A program with two hops that cannot be drawn without a crossing and two
\* hops that share an endpoint.
C29_Witness ==
    /\ BuiltILP
    /\ ilp_minimum(ilp) = 2
    /\ \E l \in DOMAIN placement.hops_by_level :
            \E g, h \in Range(placement.hops_by_level[l]) : g # h /\ g.mhr = h.mhr

\* C30: in ILP::solve the global best never goes up; it and the stored vector
\* change only at the match of a popped instance that answered Solved with an
\* objective strictly below the global best, and then they become that
\* objective and that vector; a vector is stored exactly when the global best
\* is finite; what solve returns is the global best with the stored vector,
\* or the error when nothing is stored; the vars, csp and obj of the ILP
\* itself never change.
C30_GlobalBestIsLeastSolved ==
    /\ [](global_xs # << >> <=> global_bound < INFINITY)
    /\ [][/\ global_bound' <= global_bound
          /\ (global_bound' # global_bound \/ global_xs' # global_xs) =>
                /\ pc = "match_status" /\ inst_status.kind = "Solved"
                /\ inst_status.bound < global_bound
          /\ (/\ pc = "match_status" /\ inst_status.kind = "Solved"
              /\ inst_status.bound < global_bound) =>
                global_bound' = inst_status.bound /\ global_xs' = <<inst_status.xs>>
          /\ pc' = "solved" =>
                status' = Status("Solved", 0, global_bound, global_xs[1])
          /\ pc' = "error" => global_xs = << >>
          /\ ilp' = ilp]_vars

\* With a solution stored already, a popped instance has answered Solved
\* with a smaller objective.
C30_Witness ==
    /\ pc = "match_status"
    /\ inst_status.kind = "Solved"
    /\ global_xs # << >>
    /\ inst_status.bound < global_bound
====
